---- MODULE Spec2Model ----
(***************************************************************************)
(* Tuner arbiter, live-stream sessions, EPG scan orchestrator and DVR      *)
(* recordings of jellyfin-tuner (src/lib/stream.js, src/lib/epg.js,        *)
(* src/lib/dvr.js).                                                        *)
(*                                                                         *)
(* Node runs every handler to completion, so one action is one callback:   *)
(* the synchronous code from an event (request, timer, child-process       *)
(* event) up to the next await or to the handler's end.  Timers carry the  *)
(* milliseconds left; Advance moves time to the next pending deadline, and *)
(* a due timer fires before time moves on.  Requests, client events and    *)
(* child-process exits are the environment's and may occur at any instant. *)
(***************************************************************************)
EXTENDS Integers, FiniteSets, Sequences, TLC

\* ----------------------------------------------------------------- bounds
MaxRequests == 2      \* live-stream requests made over a run
MaxRecordings == 1    \* DVR timers that come due over a run
MaxGrabs == 2         \* calls of EPG.grab over a run
MaxFreqs == 2         \* distinct frequencies of the channel collection
MaxTuners == 2        \* adapters found by discoverTuners
MaxSteps == 48        \* length of the timed run of the stall watchdog, in steps
MaxSections == 3      \* sections in a captured buffer
MaxParses == 2        \* calls of parseEIT on the captured buffer
MaxJobs == 3          \* requests, recordings and grabs made over a run, together

\* ------------------------------------------------------ program constants
PreemptPolls == 15    \* for (let i = 0; i < 15; i++)
PreemptDelay == 200   \* await delay(200)
RetryCount == 10      \* for (let i = 0; i < 10; i++)
RetryDelay == 500     \* await delay(500)
SettleDelay == 1000   \* await delay(1000) after the lease is marked
KillDelay == 2000     \* setTimeout(..., 2000) in cleanup
MuxDelay == 2000      \* await delay(2000) between two muxes
WatchdogPeriod == 5000 \* setInterval(..., 5000)
StallLimit == 30000   \* Date.now() - tuner.lastActivity > 30000
GpsEpoch == 315964800 \* startTimeGPS + 315964800 - 18: seconds from 1970 to 1980
LeapSeconds == 18     \* startTimeGPS + 315964800 - 18
GrabPeriod == 900000  \* setInterval(() => EPG.grab(15000), 15 * 60 * 1000)
DeepScanDelay == 2000 \* setTimeout(() => EPG.grab(30000), 2000)
QuickScanDelay == 5000 \* setTimeout(() => EPG.grab(20000), 5000)
ScanPollDelay == 2000 \* while (!EPG.isInitialScanDone) await delay(2000)

\* ------------------------------------------------------------- identities
None == <<>>
Sessions == {<<"live", k>> : k \in 1..MaxRequests}
Recordings == {<<"dvr", k>> : k \in 1..MaxRecordings}
EpgId == <<"epg">>
Requesters == Sessions \cup Recordings
Spawners == Requesters \cup {EpgId}
Kind(r) == r[1]

\* the listeners handleStream wires to cleanup: the client's 'close' (req and
\* res, emitted together) and a pipe 'error'
Events == {"close", "pipe.error"}

VARIABLES
    ENABLE_PREEMPTION, \* config.js: fixed at start-up
    TUNERS,            \* tuner.js: the tuner records
    lastTunerIndex,    \* tuner.js: round-robin cursor
    EPG,               \* epg.js: flags of the EPG object, the position of grab, and
                       \* the number of distinct frequencies of Channels.CHANNELS
    channel,           \* whether req.params.channelNum of a request names a channel
    task,              \* position of each handleStream / maybeStartRecording call
    acq,               \* position of each acquireTuner call
    processes,         \* the objects assigned to tuner.processes, by creator
    child,             \* state of the child processes, by spawner
    sleep,             \* pending await delay(ms), by sleeper
    killTimer,         \* pending setTimeout of cleanup, by tuner
    events,            \* how many of its terminal events a session can still
                       \* receive (each listener does the same: cleanup())
    watchdog,          \* whether the session's setInterval is still active
    crashed,           \* the server ended on an uncaught exception
    clock,             \* the times the stall watchdog reads (set by WatchdogSpec
                       \* alone; Spec leaves the instant of a stall open)
    sourceMap,         \* epg.js: EPG.sourceMap
    programs,          \* db.js: the rows of table programs
    scan,              \* the buffer captured by scanMux and the calls of parseEIT
                       \* on it (ParseSpec alone; Spec leaves the bytes out)
    tune,              \* Channels.CHANNELS, req.params.channelNum of each request
                       \* and the channel argument of its dvbv5-zap (TuneSpec
                       \* alone; Spec keeps of a number whether it is known)
    boot,              \* dbExists and the timers set at start-up (BootSpec
                       \* alone; in Spec EPG.grab is called at any time)
    sectionBuffers,    \* epg.js: EPG.sectionBuffers, the partial section of each PID
    capture,           \* the transport packets of a captured buffer, the position
                       \* of the loop of parseEIT in it and the sections it handed
                       \* to handleCompleteSection (ReassemblySpec alone; the other
                       \* specifications start from the sections)
    client             \* whether the HTTP client of a request is still connected
                       \* when the handler attaches its listeners (DisconnectSpec
                       \* alone; in Spec a client leaves after that)

vars == <<ENABLE_PREEMPTION, TUNERS, lastTunerIndex, EPG, channel, task, acq, processes,
          child, sleep, killTimer, events, watchdog, crashed, clock,
          sourceMap, programs, scan, tune, boot, client, sectionBuffers, capture>>

guide == <<sourceMap, programs, scan>>

N == Cardinality(DOMAIN TUNERS)
TunerIds == DOMAIN TUNERS

\* { id, adapter, inUse: false }; the other fields are undefined until assigned.
\* holder is history: who last marked the tuner in use (the lease's kind).
NewTuner ==
    [inUse |-> FALSE, epgScanning |-> FALSE, cleaningUp |-> FALSE,
     killSwitch |-> None, processes |-> None, watchdogInterval |-> None,
     holder |-> None]

discoverTuners == {[t \in 0..(n - 1) |-> NewTuner] : n \in 1..MaxTuners}

\* the locals of a call of acquireTuner.  cancelled and victimHolder are
\* history: whether the call invoked a killSwitch, and who had the victim
\* marked in use at that moment.
NoAcquire ==
    [phase |-> "none", i |-> 0, victim |-> -1, cancelled |-> FALSE,
     victimHolder |-> None, result |-> -1]

NoChild == [zap |-> "none", ffmpeg |-> "none"]
NoProcesses == [zap |-> None, ffmpeg |-> None]
NoTimer == [left |-> -1, procs |-> None]

\* now: Date.now(), in ms since the session was granted its tuner;
\* lastActivity: tuner.lastActivity; nextTick: when the setInterval fires next;
\* fired: now - lastActivity at the tick that called cleanup (-1: none has)
NoClock == [now |-> 0, lastActivity |-> 0, nextTick |-> -1, fired |-> -1]

\* no buffer captured yet
NoScan == [CHANNELS |-> <<>>, freq |-> 0, buffer |-> <<>>, calls |-> 0, first |-> {},
           size |-> 0]

\* new Map(), and the programs table of a new store; no request has stated
\* its channel
NoTune == [CHANNELS |-> <<>>, channelNum |-> <<>>, key |-> <<>>]
\* the start-up timers left open; scans: the timers whose call of EPG.grab
\* started a scan, in order
NoBoot == [dbExists |-> TRUE, startup |-> -1, periodic |-> -1, scans |-> <<>>]
NoClient == [s \in Sessions |-> "connected"]

\* the PIDs of the captures, and a Map without entry: `start` notes the packet
\* that opened the partial section (kept for the claims; the code has no such
\* field)
Pids == {18, 8187}
NoSection == [buffer |-> <<>>, totalLength |-> 0, start |-> -1]
NoBuffers == [p \in Pids |-> NoSection]
NoCapture == [packets |-> <<>>, rest |-> 0, i |-> 0, delivered |-> <<>>, calls |-> 0,
              prefix |-> 0]

NoGuide ==
    /\ sourceMap = <<>> /\ programs = {} /\ scan = NoScan
    /\ tune = NoTune /\ boot = NoBoot /\ client = NoClient
    /\ sectionBuffers = NoBuffers /\ capture = NoCapture

Init ==
    /\ ENABLE_PREEMPTION \in BOOLEAN
    /\ TUNERS \in discoverTuners
    /\ lastTunerIndex = -1
    /\ EPG \in {[isScanning |-> FALSE, isInitialScanDone |-> d, pc |-> "idle",
                 tuner |-> -1, left |-> 0, grabs |-> 0, frequencies |-> MaxFreqs] :
                    d \in BOOLEAN}
    /\ channel = [s \in Sessions |-> FALSE]
    /\ task = [r \in Requesters |-> [pc |-> "new", tuner |-> -1]]
    /\ acq = [r \in Requesters |-> NoAcquire]
    /\ processes = [r \in Requesters |-> NoProcesses]
    /\ child = [r \in Spawners |-> NoChild]
    /\ sleep = [r \in Spawners |-> -1]
    /\ killTimer = [t \in DOMAIN TUNERS |-> NoTimer]
    /\ events = [s \in Sessions |-> 0]
    /\ watchdog = [s \in Sessions |-> FALSE]
    /\ crashed = FALSE
    /\ clock = NoClock
    /\ NoGuide

\* how many requests, recordings and grabs the run has seen
Jobs == Cardinality({r \in Requesters : task[r].pc # "new"}) + EPG.grabs

\* ------------------------------------------------------------ child processes
\* kill(sig) on a child that has not exited delivers the signal and the exit
\* event follows: at some later moment after SIGTERM, which a child may handle
\* slowly, and at once after SIGKILL.  kill() on an exited child does nothing.
Signalled(st, sig) ==
    IF st = "running" \/ (st = "term" /\ sig = "SIGKILL")
    THEN (IF sig = "SIGKILL" THEN "killed" ELSE "term")
    ELSE st

\* procs.ffmpeg.kill(sig); procs.zap.kill(sig) on the processes object created by o
\* (`if (procs.ffmpeg)` / `if (procs.zap)` skip the handles that are not there)
killProcs(ch, o, sig) ==
    IF o = None THEN ch
    ELSE LET f == processes[o].ffmpeg
             z == processes[o].zap
             c1 == IF f = None THEN ch
                   ELSE [ch EXCEPT ![f].ffmpeg = Signalled(@, sig)]
         IN  IF z = None THEN c1 ELSE [c1 EXCEPT ![z].zap = Signalled(@, sig)]

\* ------------------------------------------------------------------- cleanup
\* const cleanup = () => {...}: every field it reads is a field of the tuner
\* record, so the closure of any session of tuner t acts on whatever the record
\* holds when it is called.
cleanup(t) ==
    IF TUNERS[t].cleaningUp
    THEN UNCHANGED <<TUNERS, child, killTimer, watchdog>>
    ELSE /\ TUNERS' = [TUNERS EXCEPT ![t].cleaningUp = TRUE]
         /\ watchdog' = IF TUNERS[t].watchdogInterval = None THEN watchdog
                        ELSE [watchdog EXCEPT ![TUNERS[t].watchdogInterval] = FALSE]
         /\ child' = killProcs(child, TUNERS[t].processes, "SIGTERM")
         /\ killTimer' = [killTimer EXCEPT ![t] =
                            [left |-> KillDelay, procs |-> TUNERS[t].processes]]

\* a callback that sends SIGKILL and leaves the tuner to the exit handlers
cleanup_timeout_kill_only(t) ==
    /\ ~crashed
    /\ killTimer[t].left = 0
    /\ child' = killProcs(child, killTimer[t].procs, "SIGKILL")
    /\ killTimer' = [killTimer EXCEPT ![t] = NoTimer]
    /\ UNCHANGED <<ENABLE_PREEMPTION, client, sectionBuffers, capture, boot, guide, tune, clock, channel, TUNERS, lastTunerIndex, EPG, task, acq,
                   processes, sleep, events, watchdog, crashed>>

\* the setTimeout callback of cleanup
cleanup_timeout(t) ==
    /\ ~crashed
    /\ killTimer[t].left = 0
    /\ child' = killProcs(child, killTimer[t].procs, "SIGKILL")
    /\ TUNERS' = [TUNERS EXCEPT ![t].inUse = FALSE, ![t].cleaningUp = FALSE,
                                ![t].holder = None]
    /\ killTimer' = [killTimer EXCEPT ![t] = NoTimer]
    /\ UNCHANGED <<ENABLE_PREEMPTION, client, sectionBuffers, capture, boot, guide, tune, clock, channel, lastTunerIndex, EPG, task, acq, processes,
                   sleep, events, watchdog, crashed>>

\* ------------------------------------------------------------------- arbiter
\* (lastTunerIndex + 1 + i) % TUNERS.length
RoundRobin(i) == (lastTunerIndex + 1 + i) % N

\* FirstFree with the bug of a search that ignores the cursor and starts at
\* index 0 (the lowest tuner not in use)
FirstFree_lowest ==
    IF \E t \in TunerIds : ~TUNERS[t].inUse
    THEN CHOOSE t \in TunerIds :
            ~TUNERS[t].inUse /\ \A u \in TunerIds : ~TUNERS[u].inUse => t <= u
    ELSE -1

\* the index the round-robin loop returns, -1 when every tuner is in use
FirstFree ==
    IF \E i \in 0..(N - 1) : ~TUNERS[RoundRobin(i)].inUse
    THEN RoundRobin(CHOOSE i \in 0..(N - 1) :
                        /\ ~TUNERS[RoundRobin(i)].inUse
                        /\ \A j \in 0..(i - 1) : TUNERS[RoundRobin(j)].inUse)
    ELSE -1

\* preemptIndex with the bug of a candidate that is the tuner granted last
preemptIndex_last == (lastTunerIndex + N) % N

preemptIndex == (lastTunerIndex + 1) % N

\* the call is over: its locals are gone, only what it returned is kept
Returned(r, t) == [NoAcquire EXCEPT !.phase = "done", !.result = t]

\* what the caller does with the tuner acquireTuner returned:
\* handleStream marks it and settles; maybeStartRecording inserts the row first
granted(r, t) ==
    IF Kind(r) = "live"
    THEN /\ TUNERS' = [TUNERS EXCEPT ![t].inUse = TRUE, ![t].processes = r,
                                     ![t].holder = r]
         /\ processes' = [processes EXCEPT ![r] = NoProcesses]
         /\ task' = [task EXCEPT ![r].pc = "settle", ![r].tuner = t]
         /\ sleep' = [sleep EXCEPT ![r] = SettleDelay]
    ELSE /\ task' = [task EXCEPT ![r].pc = "insert", ![r].tuner = t]
         /\ sleep' = [sleep EXCEPT ![r] = -1]
         /\ UNCHANGED <<TUNERS, processes>>

\* acquireTuner returned null: 503 for a stream, a warning for a recording
denied(r) ==
    /\ task' = [task EXCEPT ![r].pc = IF Kind(r) = "live" THEN "503" ELSE "noTuner"]
    /\ sleep' = [sleep EXCEPT ![r] = -1]
    /\ UNCHANGED <<TUNERS, processes>>

\* retrySearch with the bug of a pass that only waits and never looks at the
\* tuners
retrySearch_blind(r, j) ==
    /\ acq' = [acq EXCEPT ![r].phase = "retry", ![r].i = j]
    /\ sleep' = [sleep EXCEPT ![r] = RetryDelay]
    /\ task' = [task EXCEPT ![r].pc = "acquire"]
    /\ UNCHANGED <<lastTunerIndex, TUNERS, processes>>

\* step 3, one pass of the inner loop and the delay that follows it
retrySearch(r, j) ==
    IF FirstFree # -1
    THEN /\ lastTunerIndex' = FirstFree
         /\ acq' = [acq EXCEPT ![r] = Returned(r, FirstFree)]
         /\ granted(r, FirstFree)
    ELSE /\ acq' = [acq EXCEPT ![r].phase = "retry", ![r].i = j]
         /\ sleep' = [sleep EXCEPT ![r] = RetryDelay]
         /\ task' = [task EXCEPT ![r].pc = "acquire"]
         /\ UNCHANGED <<lastTunerIndex, TUNERS, processes>>

\* acquireTuner() from the call to its first await (or its return)
acquireTuner(r) ==
    IF FirstFree # -1
    THEN /\ lastTunerIndex' = FirstFree
         /\ acq' = [acq EXCEPT ![r] = Returned(r, FirstFree)]
         /\ granted(r, FirstFree)
         /\ UNCHANGED <<child, killTimer, watchdog>>
    ELSE IF ENABLE_PREEMPTION /\ ~TUNERS[preemptIndex].epgScanning
    THEN /\ IF TUNERS[preemptIndex].killSwitch # None
            THEN cleanup(preemptIndex)
            ELSE UNCHANGED <<TUNERS, child, killTimer, watchdog>>
         /\ acq' = [acq EXCEPT ![r] =
                      [phase |-> "preempt", i |-> 0, victim |-> preemptIndex,
                       cancelled |-> TUNERS[preemptIndex].killSwitch # None,
                       victimHolder |-> TUNERS[preemptIndex].holder,
                       result |-> -1]]
         /\ sleep' = [sleep EXCEPT ![r] = PreemptDelay]
         /\ task' = [task EXCEPT ![r].pc = "acquire"]
         /\ UNCHANGED <<lastTunerIndex, processes>>
    ELSE /\ retrySearch(r, 0)
         /\ UNCHANGED <<child, killTimer, watchdog>>

\* step 2: the delay(200) of the polling loop is over
acquire_poll(r) ==
    /\ ~crashed
    /\ task[r].pc = "acquire" /\ acq[r].phase = "preempt" /\ sleep[r] = 0
    /\ IF acq[r].i + 1 < PreemptPolls
       THEN IF ~TUNERS[acq[r].victim].inUse
            THEN /\ lastTunerIndex' = acq[r].victim
                 /\ acq' = [acq EXCEPT ![r] = Returned(r, acq[r].victim)]
                 /\ granted(r, acq[r].victim)
            ELSE /\ acq' = [acq EXCEPT ![r].i = @ + 1]
                 /\ sleep' = [sleep EXCEPT ![r] = PreemptDelay]
                 /\ UNCHANGED <<lastTunerIndex, TUNERS, processes, task>>
       ELSE retrySearch(r, 0)
    /\ UNCHANGED <<ENABLE_PREEMPTION, client, sectionBuffers, capture, boot, guide, tune, clock, channel, EPG, child, killTimer, events, watchdog, crashed>>

\* step 3: the delay(500) of the waiting loop is over
acquire_retry(r) ==
    /\ ~crashed
    /\ task[r].pc = "acquire" /\ acq[r].phase = "retry" /\ sleep[r] = 0
    /\ IF acq[r].i + 1 < RetryCount
       THEN retrySearch(r, acq[r].i + 1)
       ELSE /\ acq' = [acq EXCEPT ![r] = Returned(r, -1)]
            /\ denied(r)
            /\ UNCHANGED lastTunerIndex
    /\ UNCHANGED <<ENABLE_PREEMPTION, client, sectionBuffers, capture, boot, guide, tune, clock, channel, EPG, child, killTimer, events, watchdog, crashed>>

\* --------------------------------------------------------------- live session
\* lookup with the bug of a handler that takes the tuner before it looks the
\* channel up
lookup_acquire(s, known) == acquireTuner(s)

\* Channels.CHANNELS.find(...), then acquireTuner('live')
lookup(s, known) ==
    IF ~known
    THEN /\ task' = [task EXCEPT ![s].pc = "404"]
         /\ sleep' = [sleep EXCEPT ![s] = -1]
         /\ UNCHANGED <<TUNERS, lastTunerIndex, acq, processes, child, killTimer,
                        watchdog>>
    ELSE acquireTuner(s)

Arrived(s) == task[s].pc # "new"

\* GET /stream/:channelNum; known: the number resolves to a channel
handleStream(s, known) ==
    /\ ~crashed
    /\ task[s].pc = "new"
    /\ Jobs < MaxJobs
    /\ \A k \in 1..(s[2] - 1) : Arrived(<<"live", k>>)
    /\ IF ~EPG.isInitialScanDone
       THEN /\ task' = [task EXCEPT ![s].pc = "waitScan"]
            /\ sleep' = [sleep EXCEPT ![s] = ScanPollDelay]
            /\ UNCHANGED <<TUNERS, lastTunerIndex, acq, processes, child, killTimer,
                           watchdog>>
       ELSE lookup(s, known)
    /\ channel' = [channel EXCEPT ![s] = known]
    /\ UNCHANGED <<ENABLE_PREEMPTION, client, sectionBuffers, capture, boot, guide, clock, EPG, events, crashed>>

\* handleStream_wait with the bug of a wait that is not a loop: the request
\* goes on after one delay, whatever the flag
handleStream_wait_once(s) ==
    /\ ~crashed
    /\ task[s].pc = "waitScan" /\ sleep[s] = 0
    /\ lookup(s, channel[s])
    /\ UNCHANGED <<ENABLE_PREEMPTION, client, sectionBuffers, capture, boot, guide, tune, clock, EPG, channel, events, crashed>>

\* while (!EPG.isInitialScanDone) await delay(2000): the delay is over
handleStream_wait(s) ==
    /\ ~crashed
    /\ task[s].pc = "waitScan" /\ sleep[s] = 0
    /\ IF ~EPG.isInitialScanDone
       THEN /\ sleep' = [sleep EXCEPT ![s] = ScanPollDelay]
            /\ UNCHANGED <<TUNERS, lastTunerIndex, acq, processes, child, killTimer,
                           watchdog, task>>
       ELSE lookup(s, channel[s])
    /\ UNCHANGED <<ENABLE_PREEMPTION, client, sectionBuffers, capture, boot, guide, tune, clock, channel, EPG, events, crashed>>

\* ffmpeg.stdout.pipe(res), req.on('close'), res.on('close'): a response whose
\* client has left is destroyed and has emitted its 'close'; it takes no write,
\* so the pipe pauses ffmpeg.stdout, and it emits nothing more
flowing_always(s) == client[s] \in {"connected", "gone"}

flowing(s) == client[s] = "connected"

\* the settle delay is over: spawn both children, install killSwitch, the
\* watchdog and the listeners.  spawned = FALSE: dvbv5-zap cannot be started; its
\* 'error' event has no listener in this handler, which ends the server.
handleStream_spawn(s, spawned) ==
    /\ ~crashed
    /\ task[s].pc = "settle" /\ sleep[s] = 0
    /\ LET t == task[s].tuner
           o == TUNERS[t].processes
       IN  /\ processes' = [processes EXCEPT ![o] = [zap |-> s, ffmpeg |-> s]]
           /\ child' = [child EXCEPT ![s] =
                          [zap |-> IF spawned THEN "running" ELSE "failed",
                           ffmpeg |-> "running"]]
           /\ TUNERS' = [TUNERS EXCEPT ![t].killSwitch = s,
                                       ![t].watchdogInterval = s]
    /\ watchdog' = [watchdog EXCEPT ![s] = TRUE]
    /\ events' = [events EXCEPT ![s] = IF flowing(s) THEN Cardinality(Events) ELSE 0]
    /\ task' = [task EXCEPT ![s].pc = "streaming"]
    /\ sleep' = [sleep EXCEPT ![s] = -1]
    /\ crashed' = ~spawned
    /\ UNCHANGED <<ENABLE_PREEMPTION, client, sectionBuffers, capture, boot, guide, clock, channel, lastTunerIndex, EPG, acq, killTimer>>

\* the status the handler has written for the request: res.status(404),
\* res.status(503), res.writeHead(200, ...); 0 while none is written
statusCode(s) ==
    CASE task[s].pc = "404" -> 404
      [] task[s].pc = "503" -> 503
      [] task[s].pc = "streaming" -> 200
      [] OTHER -> 0

\* req 'close', res 'close' or a pipe 'error': each calls cleanup
terminal_event(s) ==
    /\ ~crashed
    /\ events[s] > 0
    /\ events' = [events EXCEPT ![s] = @ - 1]
    /\ cleanup(task[s].tuner)
    /\ UNCHANGED <<ENABLE_PREEMPTION, client, sectionBuffers, capture, boot, guide, tune, clock, channel, lastTunerIndex, EPG, task, acq, processes,
                   sleep, crashed>>

\* a tick of the session's setInterval at which
\* Date.now() - tuner.lastActivity > 30000 holds
watchdog_stalled(s) ==
    /\ ~crashed
    /\ watchdog[s]
    /\ cleanup(task[s].tuner)
    /\ UNCHANGED <<ENABLE_PREEMPTION, client, sectionBuffers, capture, boot, guide, tune, clock, channel, lastTunerIndex, EPG, task, acq, processes,
                   sleep, events, crashed>>

\* the demodulator of a live session ends after it was signalled; handleStream
\* listens to no 'exit' event
zap_exit(s) ==
    /\ ~crashed
    /\ child[s].zap \in {"term", "killed"}
    /\ child' = [child EXCEPT ![s].zap = "exited"]
    /\ UNCHANGED <<ENABLE_PREEMPTION, client, sectionBuffers, capture, boot, guide, tune, clock, channel, TUNERS, lastTunerIndex, EPG, task, acq,
                   processes, sleep, killTimer, events, watchdog, crashed>>

\* ------------------------------------------------------------------ EPG scan
\* TUNERS.find(t => !t.inUse): the first tuner in index order that is not in use
FindFree == CHOOSE t \in TunerIds :
                ~TUNERS[t].inUse /\ \A u \in TunerIds : ~TUNERS[u].inUse => t <= u

AllBusy == \A t \in TunerIds : TUNERS[t].inUse

\* scanNext with the bug of a finally block that forgets the readiness flag
scanNext_unready(left, spawned, calls) ==
    IF left = 0 \/ AllBusy
    THEN /\ EPG' = [EPG EXCEPT !.isScanning = FALSE, !.pc = "idle", !.tuner = -1,
                               !.left = 0, !.grabs = calls]
         /\ sleep' = [sleep EXCEPT ![EpgId] = -1]
         /\ UNCHANGED <<TUNERS, child, crashed>>
    ELSE /\ TUNERS' = [TUNERS EXCEPT ![FindFree].inUse = TRUE,
                                     ![FindFree].epgScanning = TRUE,
                                     ![FindFree].holder = EpgId]
         /\ child' = [child EXCEPT ![EpgId].zap =
                                      IF spawned THEN "running" ELSE "failed"]
         /\ EPG' = [EPG EXCEPT !.isScanning = TRUE, !.pc = "scanning",
                               !.tuner = FindFree, !.left = left - 1,
                               !.grabs = calls]
         /\ sleep' = [sleep EXCEPT ![EpgId] = -1]
         /\ crashed' = ~spawned

\* scanNext with the bug of a loop that takes the first tuner, in use or not
scanNext_busy(left, spawned, calls) ==
    IF left = 0
    THEN /\ EPG' = [EPG EXCEPT !.isScanning = FALSE, !.isInitialScanDone = TRUE,
                               !.pc = "idle", !.tuner = -1, !.left = 0,
                               !.grabs = calls]
         /\ sleep' = [sleep EXCEPT ![EpgId] = -1]
         /\ UNCHANGED <<TUNERS, child, crashed>>
    ELSE /\ TUNERS' = [TUNERS EXCEPT ![0].inUse = TRUE,
                                     ![0].epgScanning = TRUE,
                                     ![0].holder = EpgId]
         /\ child' = [child EXCEPT ![EpgId].zap =
                                      IF spawned THEN "running" ELSE "failed"]
         /\ EPG' = [EPG EXCEPT !.isScanning = TRUE, !.pc = "scanning",
                               !.tuner = 0, !.left = left - 1,
                               !.grabs = calls]
         /\ sleep' = [sleep EXCEPT ![EpgId] = -1]
         /\ crashed' = ~spawned

\* one pass of `for (const freq of frequencies)` up to `await this.scanMux(...)`,
\* with `left` frequencies not yet scanned; when the loop ends, the finally block
\* (calls: the number of grab calls so far, which bounds the run).
\* spawned = FALSE: dvbv5-zap cannot be started; scanMux has no 'error' listener.
scanNext(left, spawned, calls) ==
    IF left = 0 \/ AllBusy
    THEN /\ EPG' = [EPG EXCEPT !.isScanning = FALSE, !.isInitialScanDone = TRUE,
                               !.pc = "idle", !.tuner = -1, !.left = 0,
                               !.grabs = calls]
         /\ sleep' = [sleep EXCEPT ![EpgId] = -1]
         /\ UNCHANGED <<TUNERS, child, crashed>>
    ELSE /\ TUNERS' = [TUNERS EXCEPT ![FindFree].inUse = TRUE,
                                     ![FindFree].epgScanning = TRUE,
                                     ![FindFree].holder = EpgId]
         /\ child' = [child EXCEPT ![EpgId].zap =
                                      IF spawned THEN "running" ELSE "failed"]
         /\ EPG' = [EPG EXCEPT !.isScanning = TRUE, !.pc = "scanning",
                               !.tuner = FindFree, !.left = left - 1,
                               !.grabs = calls]
         /\ sleep' = [sleep EXCEPT ![EpgId] = -1]
         /\ crashed' = ~spawned

\* grab with the bug of a scan that starts on any free tuner, without the
\* check that every tuner is free
grab_unchecked(spawned) ==
    /\ ~crashed
    /\ EPG.grabs < MaxGrabs
    /\ Jobs < MaxJobs
    /\ IF EPG.isScanning
       THEN /\ EPG' = [EPG EXCEPT !.grabs = @ + 1]
            /\ UNCHANGED <<TUNERS, child, sleep, crashed>>
       ELSE scanNext(EPG.frequencies, spawned, EPG.grabs + 1)
    /\ UNCHANGED <<ENABLE_PREEMPTION, client, sectionBuffers, capture, guide, tune, clock, channel, lastTunerIndex, task, acq, processes,
                   killTimer, events, watchdog>>

\* grab with the bug of a call that does not test isScanning
grab_reentrant(spawned) ==
    /\ ~crashed
    /\ EPG.grabs < MaxGrabs
    /\ Jobs < MaxJobs
    /\ IF \E t \in TunerIds : TUNERS[t].inUse
       THEN /\ EPG' = [EPG EXCEPT !.grabs = @ + 1, !.isInitialScanDone = TRUE]
            /\ UNCHANGED <<TUNERS, child, sleep, crashed>>
       ELSE scanNext(EPG.frequencies, spawned, EPG.grabs + 1)
    /\ UNCHANGED <<ENABLE_PREEMPTION, client, sectionBuffers, capture, guide, tune, clock, channel, lastTunerIndex, task, acq, processes,
                   killTimer, events, watchdog>>

\* EPG.grab(), called by the start-up code or by the periodic timer
grab(spawned) ==
    /\ ~crashed
    /\ EPG.grabs < MaxGrabs
    /\ Jobs < MaxJobs
    /\ IF EPG.isScanning
       THEN /\ EPG' = [EPG EXCEPT !.grabs = @ + 1]
            /\ UNCHANGED <<TUNERS, child, sleep, crashed>>
       ELSE IF \E t \in TunerIds : TUNERS[t].inUse
       THEN /\ EPG' = [EPG EXCEPT !.grabs = @ + 1, !.isInitialScanDone = TRUE]
            /\ UNCHANGED <<TUNERS, child, sleep, crashed>>
       ELSE scanNext(EPG.frequencies, spawned, EPG.grabs + 1)
    /\ UNCHANGED <<ENABLE_PREEMPTION, client, sectionBuffers, capture, guide, tune, clock, channel, lastTunerIndex, task, acq, processes,
                   killTimer, events, watchdog>>

\* the setTimeout of scanMux fires, or the buffer passes 50 MB: zap.kill('SIGKILL')
scanMux_kill ==
    /\ ~crashed
    /\ EPG.pc = "scanning"
    /\ child[EpgId].zap = "running"
    /\ child' = [child EXCEPT ![EpgId].zap = "killed"]
    /\ UNCHANGED <<ENABLE_PREEMPTION, client, sectionBuffers, capture, boot, guide, tune, clock, channel, TUNERS, lastTunerIndex, EPG, task, acq,
                   processes, sleep, killTimer, events, watchdog, crashed>>

\* scanMux_exit with the bug of a grab that does not release the tuner
scanMux_exit_leak ==
    /\ ~crashed
    /\ EPG.pc = "scanning"
    /\ child[EpgId].zap \in {"running", "killed"}
    /\ child' = [child EXCEPT ![EpgId].zap = "exited"]
    /\ EPG' = [EPG EXCEPT !.pc = "delay", !.tuner = -1]
    /\ sleep' = [sleep EXCEPT ![EpgId] = MuxDelay]
    /\ UNCHANGED <<ENABLE_PREEMPTION, client, sectionBuffers, capture, boot, tune, clock, channel,
                   TUNERS, lastTunerIndex, task, acq, processes, killTimer, events, watchdog,
                   crashed>>

\* zap.on('exit') of scanMux: parseEIT, resolve(); grab goes on: it releases the
\* tuner and waits 2 s
scanMux_exit ==
    /\ ~crashed
    /\ EPG.pc = "scanning"
    /\ child[EpgId].zap \in {"running", "killed"}
    /\ child' = [child EXCEPT ![EpgId].zap = "exited"]
    /\ TUNERS' = [TUNERS EXCEPT ![EPG.tuner].inUse = FALSE,
                                ![EPG.tuner].epgScanning = FALSE,
                                ![EPG.tuner].holder = None]
    /\ EPG' = [EPG EXCEPT !.pc = "delay", !.tuner = -1]
    /\ sleep' = [sleep EXCEPT ![EpgId] = MuxDelay]
    /\ UNCHANGED <<ENABLE_PREEMPTION, client, sectionBuffers, capture, boot, tune, clock, channel, lastTunerIndex, task, acq, processes,
                   killTimer, events, watchdog, crashed>>

\* the delay between two muxes is over
grab_next(spawned) ==
    /\ ~crashed
    /\ EPG.pc = "delay" /\ sleep[EpgId] = 0
    /\ scanNext(EPG.left, spawned, EPG.grabs)
    /\ UNCHANGED <<ENABLE_PREEMPTION, client, sectionBuffers, capture, boot, guide, tune, clock, channel, lastTunerIndex, task, acq, processes,
                   killTimer, events, watchdog>>

\* ------------------------------------------------------------- DVR recording
\* DVR.maybeStartRecording for a due timer whose channel exists and that has no
\* row yet: the db.get callback calls acquireTuner('dvr')
maybeStartRecording(r) ==
    /\ ~crashed
    /\ task[r].pc = "new"
    /\ Jobs < MaxJobs
    /\ \A k \in 1..(r[2] - 1) : Arrived(<<"dvr", k>>)
    /\ acquireTuner(r)
    /\ UNCHANGED <<ENABLE_PREEMPTION, client, sectionBuffers, capture, boot, guide, tune, clock, channel, EPG, events, crashed>>

\* the callback of the INSERT: on an error the tuner is marked free; otherwise
\* DVR.startProcess marks it in use and spawns the recording's children
startProcess(r, inserted) ==
    /\ ~crashed
    /\ task[r].pc = "insert"
    /\ LET t == task[r].tuner
       IN  IF inserted
           THEN /\ TUNERS' = [TUNERS EXCEPT ![t].inUse = TRUE, ![t].processes = r,
                                            ![t].holder = r]
                /\ processes' = [processes EXCEPT ![r] = [zap |-> r, ffmpeg |-> r]]
                /\ child' = [child EXCEPT ![r] = [zap |-> "running",
                                                  ffmpeg |-> "running"]]
                /\ task' = [task EXCEPT ![r].pc = "recording"]
           ELSE /\ TUNERS' = [TUNERS EXCEPT ![t].inUse = FALSE, ![t].holder = None]
                /\ task' = [task EXCEPT ![r].pc = "failed"]
                /\ UNCHANGED <<processes, child>>
    /\ UNCHANGED <<ENABLE_PREEMPTION, client, sectionBuffers, capture, boot, guide, tune, clock, channel, lastTunerIndex, EPG, acq, sleep, killTimer,
                   events, watchdog, crashed>>

\* DVR.stopRecording: SIGTERM to rec.tuner.processes.ffmpeg and .zap
stopRecording(r) ==
    /\ ~crashed
    /\ task[r].pc = "recording"
    /\ child' = killProcs(child, TUNERS[task[r].tuner].processes, "SIGTERM")
    /\ child' # child
    /\ UNCHANGED <<ENABLE_PREEMPTION, client, sectionBuffers, capture, boot, guide, tune, clock, channel, TUNERS, lastTunerIndex, EPG, task, acq,
                   processes, sleep, killTimer, events, watchdog, crashed>>

\* ffmpeg.on('exit') of a recording: the tuner is marked free and the recording
\* leaves ACTIVE_RECORDINGS
recording_exit(r) ==
    /\ ~crashed
    /\ task[r].pc = "recording"
    /\ child[r].ffmpeg \in {"running", "term", "killed"}
    /\ child' = [child EXCEPT ![r].ffmpeg = "exited"]
    /\ TUNERS' = [TUNERS EXCEPT ![task[r].tuner].inUse = FALSE,
                                ![task[r].tuner].holder = None]
    /\ task' = [task EXCEPT ![r].pc = "ended"]
    /\ UNCHANGED <<ENABLE_PREEMPTION, client, sectionBuffers, capture, boot, guide, tune, clock, channel, lastTunerIndex, EPG, acq, processes, sleep,
                   killTimer, events, watchdog, crashed>>

\* ---------------------------------------------------------------------- time
PendingTimers ==
    {sleep[r] : r \in Spawners} \cup {killTimer[t].left : t \in TunerIds}

\* a timer is due, or the exit event of a child killed by SIGKILL is to come
Due ==
    \/ 0 \in PendingTimers
    \/ \E s \in Sessions : child[s].zap = "killed"
    \/ child[EpgId].zap = "killed" /\ EPG.pc = "scanning"
    \/ \E r \in Recordings : child[r].ffmpeg = "killed" /\ task[r].pc = "recording"
Waiting == {d \in PendingTimers : d > 0}
NextDeadline == CHOOSE d \in Waiting : \A e \in Waiting : d <= e

\* time passes until the next deadline; a due timer fires first
Advance ==
    /\ ~crashed
    /\ ~Due
    /\ Waiting # {}
    /\ sleep' = [r \in Spawners |->
                    IF sleep[r] > 0 THEN sleep[r] - NextDeadline ELSE sleep[r]]
    /\ killTimer' = [t \in TunerIds |->
                    IF killTimer[t].left > 0
                    THEN [killTimer[t] EXCEPT !.left = @ - NextDeadline]
                    ELSE killTimer[t]]
    /\ UNCHANGED <<ENABLE_PREEMPTION, client, sectionBuffers, capture, boot, guide, tune, clock, channel, TUNERS, lastTunerIndex, EPG, task, acq,
                   processes, child, events, watchdog, crashed>>

Next ==
    \/ \E s \in Sessions, known \in BOOLEAN : handleStream(s, known) /\ UNCHANGED tune
    \/ \E s \in Sessions : handleStream_wait(s)
    \/ \E s \in Sessions, spawned \in BOOLEAN :
          handleStream_spawn(s, spawned) /\ UNCHANGED tune
    \/ \E s \in Sessions : terminal_event(s)
    \/ \E s \in Sessions : watchdog_stalled(s)
    \/ \E s \in Sessions : zap_exit(s)
    \/ \E r \in Requesters : acquire_poll(r)
    \/ \E r \in Requesters : acquire_retry(r)
    \/ \E t \in TunerIds : cleanup_timeout(t)
    \/ \E spawned \in BOOLEAN : grab(spawned) /\ UNCHANGED boot
    \/ scanMux_kill
    \/ scanMux_exit /\ UNCHANGED guide
    \/ \E spawned \in BOOLEAN : grab_next(spawned)
    \/ \E r \in Recordings : maybeStartRecording(r)
    \/ \E r \in Recordings, inserted \in BOOLEAN : startProcess(r, inserted)
    \/ \E r \in Recordings : stopRecording(r)
    \/ \E r \in Recordings : recording_exit(r)
    \/ Advance

Spec == Init /\ [][Next]_vars

\* ------------------------------------------------------------------ start-up
\* Start-up with EPG enabled and no store yet: isInitialScanDone is false and
\* the first EPG.grab is on a timer, so it is called whatever else goes on (the
\* bound on the jobs of a run leaves room for it).
StartupInit == Init /\ ~EPG.isInitialScanDone

StartupNext == Next /\ (EPG.grabs = 0 => (Jobs' < MaxJobs \/ EPG'.grabs = 1))

\* timers fire, time passes, a signalled or scanning dvbv5-zap ends (scanMux
\* kills it at the latest at its timeout), and the scheduled grab is called
Fairness ==
    /\ WF_vars(Advance)
    /\ WF_vars(\E spawned \in BOOLEAN : grab(spawned) /\ UNCHANGED boot)
    /\ WF_vars(scanMux_exit /\ UNCHANGED guide)
    /\ WF_vars(\E spawned \in BOOLEAN : grab_next(spawned))
    /\ \A s \in Sessions :
          /\ WF_vars(handleStream_wait(s))
          /\ WF_vars(\E spawned \in BOOLEAN :
                        handleStream_spawn(s, spawned) /\ UNCHANGED tune)
          /\ WF_vars(zap_exit(s))
    /\ \A r \in Requesters : WF_vars(acquire_poll(r)) /\ WF_vars(acquire_retry(r))
    /\ \A r \in Recordings : WF_vars(recording_exit(r))
    /\ \A t \in 0..(MaxTuners - 1) : WF_vars(t \in TunerIds /\ cleanup_timeout(t))

StartupSpec == StartupInit /\ [][StartupNext]_vars /\ Fairness

\* ------------------------------------------------------------ stall watchdog
\* One session, timed: from the grant of the tuner the clock runs in steps of
\* the settle delay (1 s), which divides every other delay of the session, so
\* that output can arrive on a tick, between ticks, or not at all.
Step == SettleDelay
Watched == <<"live", 1>>

\* The session right after handleStream has spawned its children and started
\* the interval: tuner.lastActivity was set at the grant, one settle delay ago.
WatchdogInit ==
    /\ ENABLE_PREEMPTION \in BOOLEAN
    /\ TUNERS = [t \in {0} |->
                   [NewTuner EXCEPT !.inUse = TRUE, !.processes = Watched,
                                    !.holder = Watched, !.killSwitch = Watched,
                                    !.watchdogInterval = Watched]]
    /\ lastTunerIndex = 0
    /\ EPG = [isScanning |-> FALSE, isInitialScanDone |-> TRUE, pc |-> "idle",
              tuner |-> -1, left |-> 0, grabs |-> 0, frequencies |-> MaxFreqs]
    /\ channel = [s \in Sessions |-> s = Watched]
    /\ task = [r \in Requesters |->
                 IF r = Watched THEN [pc |-> "streaming", tuner |-> 0]
                 ELSE [pc |-> "new", tuner |-> -1]]
    /\ acq = [r \in Requesters |-> IF r = Watched THEN Returned(r, 0) ELSE NoAcquire]
    /\ processes = [r \in Requesters |->
                      IF r = Watched THEN [zap |-> r, ffmpeg |-> r] ELSE NoProcesses]
    /\ child = [r \in Spawners |->
                  IF r = Watched THEN [zap |-> "running", ffmpeg |-> "running"]
                  ELSE NoChild]
    /\ sleep = [r \in Spawners |-> -1]
    /\ killTimer = [t \in {0} |-> NoTimer]
    /\ events = [s \in Sessions |-> IF s = Watched THEN Cardinality(Events) ELSE 0]
    /\ watchdog = [s \in Sessions |-> s = Watched]
    /\ crashed = FALSE
    /\ clock = [now |-> SettleDelay, lastActivity |-> 0,
                nextTick |-> SettleDelay + WatchdogPeriod, fired |-> -1]
    /\ NoGuide

\* Date.now() - tuner.lastActivity >= 30000
stalled_at_limit(c) == c.now - c.lastActivity >= StallLimit

\* Date.now() - tuner.lastActivity > 30000
stalled(c) == c.now - c.lastActivity > StallLimit

\* ffmpeg.stdout.on('data', ...): tuner.lastActivity = Date.now()
output(s) ==
    /\ ~crashed
    /\ child[s].ffmpeg = "running"
    /\ clock.lastActivity # clock.now
    /\ clock' = [clock EXCEPT !.lastActivity = clock.now]
    /\ UNCHANGED <<ENABLE_PREEMPTION, client, sectionBuffers, capture, boot, tune, guide, tune, TUNERS, lastTunerIndex, EPG, channel, task, acq,
                   processes, child, sleep, killTimer, events, watchdog, crashed>>

\* the callback of the session's setInterval
watchdog_tick(s) ==
    /\ ~crashed
    /\ watchdog[s]
    /\ clock.now = clock.nextTick
    /\ IF stalled(clock)
       THEN /\ cleanup(task[s].tuner)
            /\ clock' = [clock EXCEPT !.fired = clock.now - clock.lastActivity,
                                      !.nextTick = IF watchdog'[s]
                                                   THEN @ + WatchdogPeriod ELSE -1]
       ELSE /\ clock' = [clock EXCEPT !.nextTick = @ + WatchdogPeriod]
            /\ UNCHANGED <<TUNERS, child, killTimer, watchdog>>
    /\ UNCHANGED <<ENABLE_PREEMPTION, client, sectionBuffers, capture, boot, tune, guide, tune, lastTunerIndex, EPG, channel, task, acq,
                   processes, sleep, events, crashed>>

\* one step of time passes, unless a timer is due first
elapse ==
    /\ ~crashed
    /\ clock.now < MaxSteps * Step
    /\ \A t \in TunerIds : killTimer[t].left # 0
    /\ \A s \in Sessions : ~(watchdog[s] /\ clock.now = clock.nextTick)
    /\ \A s \in Sessions : child[s].zap # "killed"
    /\ clock' = [clock EXCEPT !.now = @ + Step]
    /\ killTimer' = [t \in TunerIds |->
                    IF killTimer[t].left > 0
                    THEN [killTimer[t] EXCEPT !.left = @ - Step]
                    ELSE killTimer[t]]
    /\ UNCHANGED <<ENABLE_PREEMPTION, client, sectionBuffers, capture, boot, tune, guide, tune, TUNERS, lastTunerIndex, EPG, channel, task, acq,
                   processes, child, sleep, events, watchdog, crashed>>

WatchdogNext ==
    \/ \E s \in Sessions : output(s)
    \/ \E s \in Sessions : watchdog_tick(s)
    \/ \E s \in Sessions : terminal_event(s)
    \/ \E t \in TunerIds : cleanup_timeout(t)
    \/ \E s \in Sessions : zap_exit(s)
    \/ elapse

WatchdogSpec == WatchdogInit /\ [][WatchdogNext]_vars

\* ---------------------------------------------------------------- EPG guide
\* JS strings are sequences of one-character strings.  Timestamps are in
\* seconds: the code multiplies every one of them by 1000.  A section is given
\* by the fields the parsers decode from it, a buffer by its complete sections
\* in the order parseEIT hands them to handleCompleteSection.

Digits == <<"0", "1", "2", "3", "4", "5", "6", "7", "8", "9">>

\* Number.prototype.toString() of a non-negative integer
RECURSIVE toString(_)
toString(n) ==
    IF n < 10 THEN <<Digits[n + 1]>>
    ELSE toString(n \div 10) \o <<Digits[(n % 10) + 1]>>

\* String.prototype.trim()
RECURSIVE trim(_)
trim(s) ==
    IF s = <<>> THEN s
    ELSE IF Head(s) = " " THEN trim(Tail(s))
    ELSE IF s[Len(s)] = " " THEN trim(SubSeq(s, 1, Len(s) - 1))
    ELSE s

\* replace(/[\x00-\x09\x0B-\x1F\x7F]+/g, ''): of the characters that occur,
\* the tab is the one in the class
stripControl(s) == SelectSeq(s, LAMBDA c : c # "\t")

\* replace(/[^\x20-\x7E]/g, ''): tab and newline are outside the class
printable(s) == SelectSeq(s, LAMBDA c : c \notin {"\t", "\n"})

\* `${freq}_${id}`
mapKey(freq, id) == toString(freq) \o <<"_">> \o toString(id)

\* this.sourceMap.set(key, value)
mapSet(m, key, value) ==
    [k \in DOMAIN m \cup {key} |-> IF k = key THEN value ELSE m[k]]

\* id.toString(), whatever the map holds
serviceId_raw(m, freq, id) == toString(id)

\* this.sourceMap.get(mapKey) || id.toString()
serviceId(m, freq, id) ==
    IF mapKey(freq, id) \in DOMAIN m /\ m[mapKey(freq, id)] # <<>>
    THEN m[mapKey(freq, id)]
    ELSE toString(id)

\* Channels.CHANNELS.find(...) of parseATSCVCT: the three lookups in turn;
\* <<>> when none finds a channel
findChannel(CHANNELS, freq, virtualChannel, programNumber) ==
    LET byNumber == SelectSeq(CHANNELS, LAMBDA c :
                        c.frequency = freq /\ c.number = virtualChannel)
        byService == SelectSeq(CHANNELS, LAMBDA c :
                        c.frequency = freq /\ c.serviceId = toString(programNumber))
        anyFreq == SelectSeq(CHANNELS, LAMBDA c : c.number = virtualChannel)
    IN  IF byNumber # <<>> THEN <<Head(byNumber)>>
        ELSE IF byService # <<>> THEN <<Head(byService)>>
        ELSE IF anyFreq # <<>> THEN <<Head(anyFreq)>>
        ELSE <<>>

\* the body of the loop of parseATSCVCT for one channel of the table
vctChannel(m, CHANNELS, freq, ch) ==
    LET virtualChannel == toString(ch.major) \o <<".">> \o toString(ch.minor)
        found == findChannel(CHANNELS, freq, virtualChannel, ch.programNumber)
        key == mapKey(freq, ch.sourceId)
    IN  IF ch.sourceId = 0 THEN m
        ELSE IF found # <<>>
        THEN mapSet(m, key, found[1].number)
        ELSE IF key \in DOMAIN m THEN m ELSE mapSet(m, key, virtualChannel)

RECURSIVE parseATSCVCT(_, _, _, _)
parseATSCVCT(m, CHANNELS, freq, channels) ==
    IF channels = <<>> THEN m
    ELSE parseATSCVCT(vctChannel(m, CHANNELS, freq, Head(channels)),
                      CHANNELS, freq, Tail(channels))

\* ON CONFLICT(frequency, channel_service_id, start_time)
conflict(r, row) ==
    /\ r.frequency = row.frequency
    /\ r.channel_service_id = row.channel_service_id
    /\ r.start_time = row.start_time

\* INSERT ... ON CONFLICT ... DO UPDATE SET title, end_time, event_id, source_id
upsertATSC(rows, row) ==
    IF \E r \in rows : conflict(r, row)
    THEN {IF conflict(r, row)
          THEN [r EXCEPT !.title = row.title, !.end_time = row.end_time,
                         !.event_id = row.event_id, !.source_id = row.source_id]
          ELSE r : r \in rows}
    ELSE rows \cup {row}

\* INSERT ... ON CONFLICT ... DO UPDATE SET title, end_time, description
upsertDVB(rows, row) ==
    IF \E r \in rows : conflict(r, row)
    THEN {IF conflict(r, row)
          THEN [r EXCEPT !.title = row.title, !.end_time = row.end_time,
                         !.description = row.description]
          ELSE r : r \in rows}
    ELSE rows \cup {row}

\* the body of the loop of parseATSCEIT for one event; event_id and source_id
\* of a row are -1 where the statement leaves them NULL
atscEvent(rows, virtualChannel, sourceId, freq, ev) ==
    LET startTime == ev.startTimeGPS + GpsEpoch - LeapSeconds
        endTime == startTime + ev.duration
        title == trim(stripControl(ev.title))
    IN  IF title # <<>> /\ startTime > 0
        THEN upsertATSC(rows,
                [frequency |-> freq, channel_service_id |-> virtualChannel,
                 start_time |-> startTime, end_time |-> endTime, title |-> title,
                 description |-> <<>>, event_id |-> ev.eventId,
                 source_id |-> sourceId])
        ELSE rows

RECURSIVE parseATSCEIT(_, _, _, _, _)
parseATSCEIT(rows, virtualChannel, sourceId, freq, evs) ==
    IF evs = <<>> THEN rows
    ELSE parseATSCEIT(atscEvent(rows, virtualChannel, sourceId, freq, Head(evs)),
                      virtualChannel, sourceId, freq, Tail(evs))

\* an ETT that stores its text in a row of its own when no row matches
parseATSCEET_insert(rows, section, virtualChannel, freq) ==
    LET desc == trim(stripControl(section.desc))
        hit == {r \in rows : /\ r.frequency = freq
                               /\ r.channel_service_id = virtualChannel
                               /\ r.event_id = section.eventId}
    IN  IF desc = <<>> THEN rows
        ELSE IF hit = {}
        THEN rows \cup {[frequency |-> freq, channel_service_id |-> virtualChannel,
                         start_time |-> 1, end_time |-> 1, title |-> <<>>,
                         description |-> desc, event_id |-> section.eventId,
                         source_id |-> section.id]}
        ELSE {IF r \in hit THEN [r EXCEPT !.description = desc] ELSE r : r \in rows}

\* UPDATE programs SET description = ? WHERE frequency = ? AND
\* channel_service_id = ? AND event_id = ?
parseATSCEET(rows, section, virtualChannel, freq) ==
    LET desc == trim(stripControl(section.desc))
    IN  IF desc # <<>>
        THEN {IF /\ r.frequency = freq
                 /\ r.channel_service_id = virtualChannel
                 /\ r.event_id = section.eventId
              THEN [r EXCEPT !.description = desc] ELSE r : r \in rows}
        ELSE rows

\* a nibble of a BCD field: (bcd >> shift) & 0x0F
nibble(bcd, shift) == (bcd \div (2 ^ shift)) % 16

\* days from 1970-01-01 to the first of month monthIndex + 1 of year, as
\* Date.UTC counts them (a monthIndex outside 0..11 carries into the year)
daysToMonth(year, monthIndex) ==
    LET y0 == year + (monthIndex \div 12)
        m == (monthIndex % 12) + 1
        y == IF m <= 2 THEN y0 - 1 ELSE y0
        era == y \div 400
        yoe == y - era * 400
        doy == (153 * (IF m > 2 THEN m - 3 ELSE m + 9) + 2) \div 5
        doe == yoe * 365 + (yoe \div 4) - (yoe \div 100) + doy
    IN  era * 146097 + doe - 719468

\* parseDVBTime: MJD and BCD time to a timestamp
parseDVBTime(mjd, bcd) ==
    LET Y == (mjd * 100 - 1507820) \div 36525
        YD == (Y * 36525) \div 100
        M == ((mjd - YD) * 10000 - 149561000) \div 306001
        D == mjd - 14956 - YD - ((M * 306001) \div 10000)
        k == IF M = 14 \/ M = 15 THEN 1 ELSE 0
        year == 1900 + Y + k
        month == M - 1 - k * 12
        h == nibble(bcd, 20) * 10 + nibble(bcd, 16)
        m == nibble(bcd, 12) * 10 + nibble(bcd, 8)
        s == nibble(bcd, 4) * 10 + nibble(bcd, 0)
    IN  (daysToMonth(year, month - 1) + D - 1) * 86400 + h * 3600 + m * 60 + s

\* the body of the loop of parseDVBEIT for one event
dvbEvent(rows, id, freq, ev) ==
    LET startTime == parseDVBTime(ev.startTimeMJD, ev.startTimeBCD)
        durationSec == nibble(ev.durationBCD, 16) * 3600
                       + nibble(ev.durationBCD, 20) * 36000
                       + nibble(ev.durationBCD, 8) * 60
                       + nibble(ev.durationBCD, 12) * 600
                       + nibble(ev.durationBCD, 0)
                       + nibble(ev.durationBCD, 4) * 10
        endTime == startTime + durationSec
        title == printable(ev.title)
    IN  IF title # <<>> /\ startTime > 0
        THEN upsertDVB(rows,
                [frequency |-> freq, channel_service_id |-> toString(id),
                 start_time |-> startTime, end_time |-> endTime, title |-> title,
                 description |-> trim(ev.desc), event_id |-> -1, source_id |-> -1])
        ELSE rows

RECURSIVE parseDVBEIT(_, _, _, _)
parseDVBEIT(rows, id, freq, evs) ==
    IF evs = <<>> THEN rows
    ELSE parseDVBEIT(dvbEvent(rows, id, freq, Head(evs)), id, freq, Tail(evs))

\* parseEITSection with every section keyed by its raw id
parseEITSection_raw(st, section, freq) ==
    IF section.tableId = 203
    THEN [st EXCEPT !.programs =
            parseATSCEIT(@, serviceId_raw(st.sourceMap, freq, section.id),
                         section.id, freq, section.events)]
    ELSE st

\* parseEITSection: 0xCB is an ATSC EIT, 0xCC an ETT, 0x4E..0x6F a DVB EIT
parseEITSection(st, section, freq) ==
    IF section.tableId = 203
    THEN [st EXCEPT !.programs =
            parseATSCEIT(@, serviceId(st.sourceMap, freq, section.id),
                         section.id, freq, section.events)]
    ELSE IF section.tableId = 204
    THEN [st EXCEPT !.programs =
            parseATSCEET(@, section, serviceId(st.sourceMap, freq, section.id), freq)]
    ELSE IF section.tableId >= 78 /\ section.tableId <= 111
    THEN [st EXCEPT !.programs = parseDVBEIT(@, section.id, freq, section.events)]
    ELSE st

\* handleCompleteSection: 0xC8 and 0xC9 are VCTs
handleCompleteSection(st, CHANNELS, section, freq) ==
    IF section.tableId = 200 \/ section.tableId = 201
    THEN [st EXCEPT !.sourceMap = parseATSCVCT(@, CHANNELS, freq, section.channels)]
    ELSE IF \/ section.tableId >= 78 /\ section.tableId <= 111
            \/ section.tableId >= 199 /\ section.tableId <= 207
    THEN parseEITSection(st, section, freq)
    ELSE st

\* parseEIT(buffer, freq): st is EPG.sourceMap and the store
RECURSIVE parseEIT(_, _, _, _)
parseEIT(st, CHANNELS, buffer, freq) ==
    IF buffer = <<>> THEN st
    ELSE parseEIT(handleCompleteSection(st, CHANNELS, Head(buffer), freq),
                  CHANNELS, Tail(buffer), freq)

\* ---- the inputs
Frequencies == {473000000, 479000000}
News == <<"N", "e", "w", "s">>
Blank == <<" ", "\t">>
HalfHour == 1800
\* 0x003000: 00:30:00 in BCD
HalfHourBCD == 3 * 4096
\* 0x123000: 12:30:00 in BCD
NoonBCD == 65536 * 18 + 3 * 4096
GpsNow == 1400000000
MjdNow == 60000
\* a day of 1968: a start time before 1970
MjdOld == 40000

VCT(sourceId, major, minor, programNumber) ==
    [tableId |-> 200,
     channels |-> <<[sourceId |-> sourceId, major |-> major, minor |-> minor,
                     programNumber |-> programNumber]>>]
ATSCEIT(id, duration, title) ==
    [tableId |-> 203, id |-> id,
     events |-> <<[eventId |-> 1, startTimeGPS |-> GpsNow, duration |-> duration,
                   title |-> title]>>]
ETT(id, desc) == [tableId |-> 204, id |-> id, eventId |-> 1, desc |-> desc]
DVBEIT(id, mjd, durationBCD, title) ==
    [tableId |-> 78, id |-> id,
     events |-> <<[startTimeMJD |-> mjd, startTimeBCD |-> NoonBCD,
                   durationBCD |-> durationBCD, title |-> title,
                   desc |-> <<"d">>]>>]

\* a DVB EIT section whose event has no extended event descriptor
DVBEIT_untexted(id, mjd, durationBCD, title) ==
    [DVBEIT(id, mjd, durationBCD, title) EXCEPT !.events[1].desc = <<>>]

Sections ==
    {VCT(7, 15, 1, 3), ETT(7, <<"d">>),
     DVBEIT_untexted(7, MjdNow, HalfHourBCD, News),
     ATSCEIT(7, HalfHour, News), ATSCEIT(7, 0, News), ATSCEIT(7, HalfHour, Blank),
     DVBEIT(7, MjdNow, HalfHourBCD, News), DVBEIT(7, MjdNow, 0, News),
     DVBEIT(7, MjdOld, HalfHourBCD, News)}

Buffers == UNION {[1..n -> Sections] : n \in 1..MaxSections}

\* Channels.CHANNELS: no channel, the channel of the VCT under its number, or
\* a channel found by its service id
Configs(f) ==
    {<<>>,
     <<[frequency |-> f, number |-> <<"1", "5", ".", "1">>, serviceId |-> <<"9">>]>>,
     <<[frequency |-> f, number |-> <<"9", ".", "2">>, serviceId |-> <<"3">>]>>}

\* EPG.sourceMap as an earlier scan of the upper frequency may have left it
EarlierMaps ==
    {<<>>, mapSet(<<>>, mapKey(479000000, 7), <<"4", ".", "1">>)}

\* scanMux has captured a buffer on a frequency; the store is empty
ParseInit ==
    /\ ENABLE_PREEMPTION = TRUE
    /\ TUNERS = [t \in {0} |-> NewTuner]
    /\ lastTunerIndex = -1
    /\ EPG = [isScanning |-> FALSE, isInitialScanDone |-> TRUE, pc |-> "idle",
              tuner |-> -1, left |-> 0, grabs |-> 0, frequencies |-> MaxFreqs]
    /\ channel = [s \in Sessions |-> FALSE]
    /\ task = [r \in Requesters |-> [pc |-> "new", tuner |-> -1]]
    /\ acq = [r \in Requesters |-> NoAcquire]
    /\ processes = [r \in Requesters |-> NoProcesses]
    /\ child = [r \in Spawners |-> NoChild]
    /\ sleep = [r \in Spawners |-> -1]
    /\ killTimer = [t \in {0} |-> NoTimer]
    /\ events = [s \in Sessions |-> 0]
    /\ watchdog = [s \in Sessions |-> FALSE]
    /\ crashed = FALSE
    /\ clock = NoClock
    /\ sourceMap \in EarlierMaps
    /\ programs = {}
    /\ tune = NoTune
    /\ boot = NoBoot
    /\ client = NoClient
    /\ sectionBuffers = NoBuffers /\ capture = NoCapture
    /\ \E f \in Frequencies :
          scan \in {[CHANNELS |-> c, freq |-> f, buffer |-> b, calls |-> 0,
                     first |-> {}, size |-> 0] : c \in Configs(f), b \in Buffers}

\* the exit handler of scanMux calls this.parseEIT(buffer, freq); first keeps
\* the store as the first call on the buffer left it
scanMux_parse ==
    /\ scan.calls < MaxParses
    /\ LET st == parseEIT([sourceMap |-> sourceMap, programs |-> programs],
                          scan.CHANNELS, scan.buffer, scan.freq)
       IN  /\ sourceMap' = st.sourceMap
           /\ programs' = st.programs
           /\ scan' = [scan EXCEPT !.calls = @ + 1,
                                   !.first = IF scan.calls = 0 THEN st.programs ELSE @]
    /\ UNCHANGED <<ENABLE_PREEMPTION, client, sectionBuffers, capture, boot, tune, TUNERS, lastTunerIndex, EPG, channel, task, acq,
                   processes, child, sleep, killTimer, events, watchdog, crashed, clock>>

ParseNext == scanMux_parse

ParseSpec == ParseInit /\ [][ParseNext]_vars

(***************************************************************************)
(* A whole EPG scan: grab takes the tuner for each mux, scanMux captures   *)
(* and its exit handler parses the capture into the guide.                 *)
(***************************************************************************)

\* the i-th key of muxMap
muxFreq(i) == 473000000 + (i - 1) * 6000000

ScanInit ==
    /\ ENABLE_PREEMPTION = TRUE
    /\ TUNERS = [t \in {0} |-> NewTuner]
    /\ lastTunerIndex = -1
    /\ EPG = [isScanning |-> FALSE, isInitialScanDone |-> FALSE, pc |-> "idle",
              tuner |-> -1, left |-> 0, grabs |-> 0, frequencies |-> MaxFreqs]
    /\ channel = [s \in Sessions |-> FALSE]
    /\ task = [r \in Requesters |-> [pc |-> "new", tuner |-> -1]]
    /\ acq = [r \in Requesters |-> NoAcquire]
    /\ processes = [r \in Requesters |-> NoProcesses]
    /\ child = [r \in Spawners |-> NoChild]
    /\ sleep = [r \in Spawners |-> -1]
    /\ killTimer = [t \in {0} |-> NoTimer]
    /\ events = [s \in Sessions |-> 0]
    /\ watchdog = [s \in Sessions |-> FALSE]
    /\ crashed = FALSE
    /\ clock = NoClock
    /\ sourceMap = <<>>
    /\ programs = {}
    /\ tune = NoTune
    /\ boot = NoBoot
    /\ client = NoClient
    /\ sectionBuffers = NoBuffers /\ capture = NoCapture
    /\ scan \in {[CHANNELS |-> c, freq |-> 0, buffer |-> b, calls |-> 0,
                  first |-> {}, size |-> 0] : c \in Configs(muxFreq(1)), b \in Buffers}

\* zap.on('exit') of scanMux with its parse: this.parseEIT(buffer, freq) on the
\* capture of the mux being scanned, then resolve() and the rest of scanMux_exit
scan_exit ==
    /\ scanMux_exit
    /\ LET freq == muxFreq(EPG.frequencies - EPG.left)
           st == parseEIT([sourceMap |-> sourceMap, programs |-> programs],
                          scan.CHANNELS, scan.buffer, freq)
       IN  /\ sourceMap' = st.sourceMap
           /\ programs' = st.programs
           /\ scan' = [scan EXCEPT !.freq = freq, !.calls = @ + 1, !.size = 0,
                                   !.first = IF scan.calls = 0 THEN st.programs ELSE @]

\* the limit of the capture of one mux, and the bytes of one 'data' event (far
\* larger than a real chunk, so that few events reach the limit)
BufferCap == 50 * 1024 * 1024
Chunk == 20 * 1024 * 1024

\* zap.stdout.on('data') of scanMux: buffer = Buffer.concat([buffer, data]), and
\* zap.kill('SIGKILL') once buffer.length > 50 MB.  size is buffer.length of the
\* scanMux call in progress (each call starts from Buffer.alloc(0))
scanMux_data ==
    /\ ~crashed
    /\ EPG.pc = "scanning"
    /\ child[EpgId].zap = "running"
    /\ scan' = [scan EXCEPT !.size = @ + Chunk]
    /\ child' = IF scan.size + Chunk > BufferCap
                THEN [child EXCEPT ![EpgId].zap = "killed"]
                ELSE child
    /\ UNCHANGED <<ENABLE_PREEMPTION, client, sectionBuffers, capture, boot, tune, clock, channel,
                   TUNERS, lastTunerIndex, EPG, task, acq, processes, sleep, killTimer,
                   events, watchdog, crashed, sourceMap, programs>>

ScanNext ==
    \/ \E spawned \in BOOLEAN : grab(spawned) /\ UNCHANGED boot
    \/ scanMux_kill
    \/ scanMux_data
    \/ scan_exit
    \/ \E spawned \in BOOLEAN : grab_next(spawned)
    \/ Advance

ScanSpec == ScanInit /\ [][ScanNext]_vars

(***************************************************************************)
(* Section reassembly: the loop of parseEIT over the transport packets of  *)
(* a capture, one pass per step.  A packet is given by the fields the loop *)
(* decodes from it (sync byte, PID, payload_unit_start_indicator) and its  *)
(* payload, buffer.slice(i + payloadOffset, i + 188), of MaxPayload bytes  *)
(* where a real packet has up to 184.                                      *)
(***************************************************************************)

MaxPayload == 4
MaxPackets == 4
PacketSize == 188

\* b.slice(from) and b.slice(0, n) of a Buffer
slice(b, from) == SubSeq(b, from + 1, Len(b))
head(b, n) == SubSeq(b, 1, n)

\* a payload filled up with stuffing bytes
pad(bytes) == bytes \o [k \in 1..(MaxPayload - Len(bytes)) |-> 255]

\* sections of section_length 2 (five bytes, two packets) and 0 (three bytes)
SectionX == <<78, 0, 2, 31, 32>>
SectionW == <<80, 0, 2, 51, 52>>
SectionY == <<79, 0, 0>>

\* payloads: pointer_field 0 and the first bytes of a section; the rest of a
\* section; and pointer_field 2, where the section that starts after the end
\* of the previous one has a single byte in this packet
startOf(section) == pad(<<0>> \o head(section, 3))
tailOf(section) == pad(slice(section, 3))
lateStart == pad(<<2, 31, 32, 80>>)

Payloads ==
    {[pusi |-> TRUE, payload |-> startOf(SectionX)],
     [pusi |-> TRUE, payload |-> startOf(SectionW)],
     [pusi |-> TRUE, payload |-> startOf(SectionY)],
     [pusi |-> TRUE, payload |-> lateStart],
     [pusi |-> FALSE, payload |-> tailOf(SectionX)],
     [pusi |-> FALSE, payload |-> tailOf(SectionW)]}

Packets ==
    {[sync |-> TRUE, pid |-> p, pusi |-> k.pusi, payload |-> k.payload] :
        p \in Pids, k \in Payloads}
    \cup {[sync |-> FALSE, pid |-> 18, pusi |-> FALSE, payload |-> tailOf(SectionX)]}

\* captures of up to MaxPackets whole packets, followed or not by a part of one
Captures ==
    {[packets |-> b, rest |-> r, i |-> 0, delivered |-> <<>>, calls |-> 1,
      prefix |-> 0] :
        b \in UNION {[1..n -> Packets] : n \in 1..MaxPackets}, r \in {0, 100}}

\* the capture of a later mux: one whole packet and a part of the next
LaterCaptures ==
    {[packets |-> <<packet>>, rest |-> 100, i |-> 0, delivered |-> <<>>, calls |-> 1,
      prefix |-> 0] : packet \in Packets}

\* the mark of a partial section that an earlier call of parseEIT left
Earlier == -2

ReassemblyInit ==
    /\ ENABLE_PREEMPTION = TRUE
    /\ TUNERS = [t \in {0} |-> NewTuner]
    /\ lastTunerIndex = -1
    /\ EPG = [isScanning |-> FALSE, isInitialScanDone |-> TRUE, pc |-> "idle",
              tuner |-> -1, left |-> 0, grabs |-> 0, frequencies |-> MaxFreqs]
    /\ channel = [s \in Sessions |-> FALSE]
    /\ task = [r \in Requesters |-> [pc |-> "new", tuner |-> -1]]
    /\ acq = [r \in Requesters |-> NoAcquire]
    /\ processes = [r \in Requesters |-> NoProcesses]
    /\ child = [r \in Spawners |-> NoChild]
    /\ sleep = [r \in Spawners |-> -1]
    /\ killTimer = [t \in {0} |-> NoTimer]
    /\ events = [s \in Sessions |-> 0]
    /\ watchdog = [s \in Sessions |-> FALSE]
    /\ crashed = FALSE
    /\ clock = NoClock
    /\ sourceMap = <<>> /\ programs = {} /\ scan = NoScan
    /\ tune = NoTune /\ boot = NoBoot /\ client = NoClient
    /\ sectionBuffers = NoBuffers
    /\ capture \in Captures

\* the body of `for (let i = 0; ...; i += 188)` for packet number k: the new
\* sectionBuffers and the calls of handleCompleteSection so far (at: the packet
\* whose pass made the call)
reassemble(sb, delivered, packet, k) ==
    LET same == [sectionBuffers |-> sb, delivered |-> delivered]
        pid == packet.pid
    IN  IF ~packet.sync \/ packet.payload = <<>> THEN same
        ELSE IF packet.pusi
        THEN LET pointer == packet.payload[1]
                 sectionStart == slice(packet.payload, pointer + 1)
             IN  IF Len(sectionStart) >= 3
                 THEN LET sectionLen == (sectionStart[2] % 16) * 256 + sectionStart[3]
                          totalLen == sectionLen + 3
                      IN  IF Len(sectionStart) >= totalLen
                          THEN [sectionBuffers |-> sb,
                                delivered |-> Append(delivered,
                                   [section |-> head(sectionStart, totalLen),
                                    pid |-> pid, at |-> k, start |-> k])]
                          ELSE [sectionBuffers |-> [sb EXCEPT ![pid] =
                                   [buffer |-> sectionStart, totalLength |-> totalLen,
                                    start |-> k]],
                                delivered |-> delivered]
                 ELSE same
        ELSE LET state == sb[pid]
             IN  IF state # NoSection
                 THEN LET buffer == state.buffer \o packet.payload
                      IN  IF Len(buffer) >= state.totalLength
                          THEN [sectionBuffers |-> [sb EXCEPT ![pid] = NoSection],
                                delivered |-> Append(delivered,
                                   [section |-> head(buffer, state.totalLength),
                                    pid |-> pid, at |-> k, start |-> state.start])]
                          ELSE [sectionBuffers |-> [sb EXCEPT ![pid].buffer = buffer],
                                delivered |-> delivered]
                 ELSE same

\* buffer.length of the capture
length(c) == Len(c.packets) * PacketSize + c.rest

\* i < buffer.length - 188, for the packet at offset i = k * 188
inLoop(c, k) == k * PacketSize < length(c) - PacketSize

\* one pass of the loop of parseEIT
parseEIT_packet ==
    /\ inLoop(capture, capture.i)
    /\ LET r == reassemble(sectionBuffers, capture.delivered,
                           capture.packets[capture.i + 1], capture.i)
       IN  /\ sectionBuffers' = r.sectionBuffers
           /\ capture' = [capture EXCEPT !.i = @ + 1, !.delivered = r.delivered]
    /\ UNCHANGED <<ENABLE_PREEMPTION, client, boot, guide, tune, clock, channel, TUNERS,
                   lastTunerIndex, EPG, task, acq, processes, child, sleep, killTimer,
                   events, watchdog, crashed>>

\* the loop has ended and parseEIT returns; the exit handler of the next
\* scanMux calls parseEIT on its capture: `if (!this.sectionBuffers)` finds the
\* Map of the call before and keeps it with its entries
parseEIT_call ==
    /\ ~inLoop(capture, capture.i)
    /\ capture.calls < MaxParses
    /\ \E c \in LaterCaptures : capture' = [c EXCEPT !.calls = capture.calls + 1]
    /\ sectionBuffers' = [p \in Pids |->
                             IF sectionBuffers[p] = NoSection THEN NoSection
                             ELSE [sectionBuffers[p] EXCEPT !.start = Earlier]]
    /\ UNCHANGED <<ENABLE_PREEMPTION, client, boot, guide, tune, clock, channel, TUNERS,
                   lastTunerIndex, EPG, task, acq, processes, child, sleep, killTimer,
                   events, watchdog, crashed>>

ReassemblyNext == parseEIT_packet \/ parseEIT_call

ReassemblySpec == ReassemblyInit /\ [][ReassemblyNext]_vars

(***************************************************************************)
(* The packet loop on the bytes of a capture: the buffer is the sequence   *)
(* of its bytes, a prefix that is no packet, then whole 188-byte packets,  *)
(* then a part of a packet, and the loop decodes what it finds at each     *)
(* offset i.                                                               *)
(***************************************************************************)

MaxAligned == 2

\* the 188 bytes of a packet: sync byte 0x47, PUSI and PID, a fourth byte with
\* adaptation_field_control 1 (payload only), the payload and stuffing
encode(packet) ==
    <<IF packet.sync THEN 71 ELSE 0,
      (IF packet.pusi THEN 64 ELSE 0) + packet.pid \div 256,
      packet.pid % 256,
      16>>
    \o packet.payload
    \o [k \in 1..(PacketSize - 4 - Len(packet.payload)) |-> 255]

RECURSIVE concat(_)
concat(packets) ==
    IF packets = <<>> THEN <<>> ELSE encode(Head(packets)) \o concat(Tail(packets))

\* the bytes of a capture; prefix and the part at the end hold no sync byte
bytes(c) ==
    [k \in 1..c.prefix |-> 0] \o concat(c.packets) \o [k \in 1..c.rest |-> 0]

\* what the loop reads at offset i of the buffer: the sync check, pid, pusi,
\* adaptation and payloadOffset, and payload = buffer.slice(i + payloadOffset,
\* i + 188), empty when payloadOffset >= 188
decode(buffer, i) ==
    LET adaptation == (buffer[i + 4] \div 16) % 4
        payloadOffset == IF adaptation \in {2, 3} THEN 4 + buffer[i + 5] + 1 ELSE 4
    IN  [sync |-> buffer[i + 1] = 71,
         pid |-> (buffer[i + 2] % 32) * 256 + buffer[i + 3],
         pusi |-> (buffer[i + 2] \div 64) % 2 = 1,
         payload |-> IF payloadOffset >= PacketSize THEN <<>>
                     ELSE SubSeq(buffer, i + payloadOffset + 1, i + PacketSize)]

\* the sections that the loop of parseEIT hands to handleCompleteSection from
\* pass k on
RECURSIVE parseFrom(_, _, _, _)
parseFrom(buffer, k, sb, delivered) ==
    IF k * PacketSize < Len(buffer) - PacketSize
    THEN LET r == reassemble(sb, delivered, decode(buffer, k * PacketSize), k)
         IN  parseFrom(buffer, k + 1, r.sectionBuffers, r.delivered)
    ELSE delivered

\* the calls of handleCompleteSection without the notes of the model
handed(delivered) ==
    [n \in 1..Len(delivered) |->
        [section |-> delivered[n].section, pid |-> delivered[n].pid]]

SyncInit ==
    /\ ENABLE_PREEMPTION = TRUE
    /\ TUNERS = [t \in {0} |-> NewTuner]
    /\ lastTunerIndex = -1
    /\ EPG = [isScanning |-> FALSE, isInitialScanDone |-> TRUE, pc |-> "idle",
              tuner |-> -1, left |-> 0, grabs |-> 0, frequencies |-> MaxFreqs]
    /\ channel = [s \in Sessions |-> FALSE]
    /\ task = [r \in Requesters |-> [pc |-> "new", tuner |-> -1]]
    /\ acq = [r \in Requesters |-> NoAcquire]
    /\ processes = [r \in Requesters |-> NoProcesses]
    /\ child = [r \in Spawners |-> NoChild]
    /\ sleep = [r \in Spawners |-> -1]
    /\ killTimer = [t \in {0} |-> NoTimer]
    /\ events = [s \in Sessions |-> 0]
    /\ watchdog = [s \in Sessions |-> FALSE]
    /\ crashed = FALSE
    /\ clock = NoClock
    /\ sourceMap = <<>> /\ programs = {} /\ scan = NoScan
    /\ tune = NoTune /\ boot = NoBoot /\ client = NoClient
    /\ sectionBuffers = NoBuffers
    /\ capture \in {[packets |-> b, rest |-> 100, i |-> 0, delivered |-> <<>>,
                     calls |-> 1, prefix |-> q] :
                       b \in UNION {[1..n -> Packets] : n \in 1..MaxAligned},
                       q \in {0, 5, PacketSize, PacketSize + 12}}

\* one pass of the loop of parseEIT, on the bytes
parseEIT_bytes ==
    /\ capture.i * PacketSize < Len(bytes(capture)) - PacketSize
    /\ LET r == reassemble(sectionBuffers, capture.delivered,
                           decode(bytes(capture), capture.i * PacketSize), capture.i)
       IN  /\ sectionBuffers' = r.sectionBuffers
           /\ capture' = [capture EXCEPT !.i = @ + 1, !.delivered = r.delivered]
    /\ UNCHANGED <<ENABLE_PREEMPTION, client, boot, guide, tune, clock, channel, TUNERS,
                   lastTunerIndex, EPG, task, acq, processes, child, sleep, killTimer,
                   events, watchdog, crashed>>

SyncNext == parseEIT_bytes

SyncSpec == SyncInit /\ [][SyncNext]_vars

\* --------------------------------------------------------------- tuning key
\* Live sessions alone, with the channel list and the requested numbers kept:
\* channels.conf has two sections of one name and different VCHANNEL numbers.
Bounce ==
    <<[name |-> "Bounce", number |-> "55.1"], [name |-> "Bounce", number |-> "55.2"]>>

\* values of req.params.channelNum: the two numbers, the name, no channel
ChannelNums == {"55.1", "55.2", "Bounce", "9.9"}

\* Channels.CHANNELS.find(c => c.number === channelNum); <<>> for undefined
findByNumber(CHANNELS, channelNum) ==
    LET hits == SelectSeq(CHANNELS, LAMBDA c : c.number = channelNum)
    IN  IF hits = <<>> THEN <<>> ELSE <<Head(hits)>>

\* a demodulator tuned by the section name
zapChannel_name(CHANNELS, channelNum) == findByNumber(CHANNELS, channelNum)[1].name

\* the last argument of spawn('dvbv5-zap', [...]): channel.number
zapChannel(CHANNELS, channelNum) == findByNumber(CHANNELS, channelNum)[1].number

TuneInit ==
    /\ ENABLE_PREEMPTION \in BOOLEAN
    /\ TUNERS = [t \in {0} |-> NewTuner]
    /\ lastTunerIndex = -1
    /\ EPG = [isScanning |-> FALSE, isInitialScanDone |-> TRUE, pc |-> "idle",
              tuner |-> -1, left |-> 0, grabs |-> 0, frequencies |-> MaxFreqs]
    /\ channel = [s \in Sessions |-> FALSE]
    /\ task = [r \in Requesters |-> [pc |-> "new", tuner |-> -1]]
    /\ acq = [r \in Requesters |-> NoAcquire]
    /\ processes = [r \in Requesters |-> NoProcesses]
    /\ child = [r \in Spawners |-> NoChild]
    /\ sleep = [r \in Spawners |-> -1]
    /\ killTimer = [t \in {0} |-> NoTimer]
    /\ events = [s \in Sessions |-> 0]
    /\ watchdog = [s \in Sessions |-> FALSE]
    /\ crashed = FALSE
    /\ clock = NoClock
    /\ sourceMap = <<>> /\ programs = {} /\ scan = NoScan /\ boot = NoBoot
    /\ client = NoClient
    /\ sectionBuffers = NoBuffers /\ capture = NoCapture
    /\ tune = [CHANNELS |-> Bounce, channelNum |-> [s \in Sessions |-> ""],
               key |-> [s \in Sessions |-> ""]]

\* GET /stream/:channelNum with its parameter
tune_handleStream(s, channelNum) ==
    /\ handleStream(s, findByNumber(tune.CHANNELS, channelNum) # <<>>)
    /\ tune' = [tune EXCEPT !.channelNum[s] = channelNum]

\* the spawn of the session's dvbv5-zap with its arguments
tune_spawn(s, spawned) ==
    /\ handleStream_spawn(s, spawned)
    /\ tune' = [tune EXCEPT !.key[s] = zapChannel(tune.CHANNELS, tune.channelNum[s])]

TuneNext ==
    \/ \E s \in Sessions, channelNum \in ChannelNums : tune_handleStream(s, channelNum)
    \/ \E s \in Sessions, spawned \in BOOLEAN : tune_spawn(s, spawned)
    \/ \E s \in Sessions : terminal_event(s)
    \/ \E s \in Sessions : watchdog_stalled(s)
    \/ \E s \in Sessions : zap_exit(s)
    \/ \E r \in Requesters : acquire_poll(r)
    \/ \E r \in Requesters : acquire_retry(r)
    \/ \E t \in TunerIds : cleanup_timeout(t)
    \/ Advance

TuneSpec == TuneInit /\ [][TuneNext]_vars

\* ------------------------------------------------------------- boot timers
\* Start-up with EPG enabled, its timers timed: the periodic setInterval and
\* the setTimeout of the start-up grab, a deep scan when the store is missing
\* and a quick scan when it exists.  One client streams meanwhile.
BootInit ==
    /\ ENABLE_PREEMPTION \in BOOLEAN
    /\ TUNERS \in discoverTuners
    /\ lastTunerIndex = -1
    /\ channel = [s \in Sessions |-> FALSE]
    /\ task = [r \in Requesters |-> [pc |-> "new", tuner |-> -1]]
    /\ acq = [r \in Requesters |-> NoAcquire]
    /\ processes = [r \in Requesters |-> NoProcesses]
    /\ child = [r \in Spawners |-> NoChild]
    /\ sleep = [r \in Spawners |-> -1]
    /\ killTimer = [t \in DOMAIN TUNERS |-> NoTimer]
    /\ events = [s \in Sessions |-> 0]
    /\ watchdog = [s \in Sessions |-> FALSE]
    /\ crashed = FALSE
    /\ clock = NoClock
    /\ sourceMap = <<>> /\ programs = {} /\ scan = NoScan /\ tune = NoTune
    /\ client = NoClient
    /\ sectionBuffers = NoBuffers /\ capture = NoCapture
    /\ \E dbExists \in BOOLEAN :
          /\ EPG = [isScanning |-> FALSE, isInitialScanDone |-> dbExists,
                    pc |-> "idle", tuner |-> -1, left |-> 0, grabs |-> 0,
                    frequencies |-> MaxFreqs]
          /\ boot = [dbExists |-> dbExists,
                     startup |-> IF dbExists THEN QuickScanDelay ELSE DeepScanDelay,
                     periodic |-> GrabPeriod, scans |-> <<>>]

\* the trigger is noted when its call of EPG.grab starts a scan
Scanned(trigger) ==
    IF ~EPG.isScanning /\ EPG'.isScanning THEN Append(boot.scans, trigger)
    ELSE boot.scans

\* the setTimeout of the start-up code fires
boot_startup(spawned) ==
    /\ boot.startup = 0
    /\ grab(spawned)
    /\ boot' = [boot EXCEPT !.startup = -1, !.scans = Scanned("startup")]

\* the setInterval of the start-up code fires
boot_periodic(spawned) ==
    /\ boot.periodic = 0
    /\ grab(spawned)
    /\ boot' = [boot EXCEPT !.periodic = GrabPeriod, !.scans = Scanned("periodic")]

\* time passes until the next deadline, those of the start-up timers included
boot_elapse ==
    /\ ~crashed
    /\ ~Due
    /\ boot.startup # 0 /\ boot.periodic # 0
    /\ LET waiting == Waiting \cup {d \in {boot.startup, boot.periodic} : d > 0}
           step == CHOOSE d \in waiting : \A e \in waiting : d <= e
       IN  /\ waiting # {}
           /\ sleep' = [r \in Spawners |->
                           IF sleep[r] > 0 THEN sleep[r] - step ELSE sleep[r]]
           /\ killTimer' = [t \in TunerIds |->
                           IF killTimer[t].left > 0
                           THEN [killTimer[t] EXCEPT !.left = @ - step]
                           ELSE killTimer[t]]
           /\ boot' = [boot EXCEPT
                         !.startup = IF @ > 0 THEN @ - step ELSE @,
                         !.periodic = IF @ > 0 THEN @ - step ELSE @]
    /\ UNCHANGED <<ENABLE_PREEMPTION, client, sectionBuffers, capture, guide, tune, clock, channel, TUNERS, lastTunerIndex,
                   EPG, task, acq, processes, child, events, watchdog, crashed>>

BootNext ==
    \/ \E spawned \in BOOLEAN : boot_startup(spawned)
    \/ \E spawned \in BOOLEAN : boot_periodic(spawned)
    \/ boot_elapse
    \/ scanMux_kill
    \/ scanMux_exit /\ UNCHANGED guide
    \/ \E spawned \in BOOLEAN : grab_next(spawned)
    \/ \E known \in BOOLEAN : handleStream(Watched, known) /\ UNCHANGED tune
    \/ handleStream_wait(Watched)
    \/ \E spawned \in BOOLEAN : handleStream_spawn(Watched, spawned) /\ UNCHANGED tune
    \/ terminal_event(Watched)
    \/ zap_exit(Watched)
    \/ acquire_retry(Watched)
    \/ \E t \in TunerIds : cleanup_timeout(t)

BootSpec == BootInit /\ [][BootNext]_vars

(***************************************************************************)
(* A client that leaves early: one request whose client may disconnect     *)
(* while the handler has no 'close' listener yet, next to the EPG scan     *)
(* that makes the request wait.                                            *)
(***************************************************************************)

DisconnectInit == Init

\* the client of a request closes its connection while handleStream awaits the
\* first scan, acquireTuner or the settle delay: req and res emit 'close', and
\* no listener is attached
disconnect(s) ==
    /\ ~crashed
    /\ client[s] = "connected"
    /\ task[s].pc \in {"waitScan", "acquire", "settle"}
    /\ client' = [client EXCEPT ![s] = "gone"]
    /\ UNCHANGED <<ENABLE_PREEMPTION, sectionBuffers, capture, boot, guide, tune, clock, channel,
                   TUNERS, lastTunerIndex, EPG, task, acq, processes, child, sleep,
                   killTimer, events, watchdog, crashed>>

\* the watchdog of a session whose output is paused: lastActivity stays, and
\* a callback of the interval finds Date.now() - tuner.lastActivity > 30000
watchdog_paused(s) == ~flowing(s) /\ watchdog_stalled(s)

DisconnectNext ==
    \/ \E spawned \in BOOLEAN : grab(spawned) /\ UNCHANGED boot
    \/ scanMux_kill
    \/ scanMux_exit /\ UNCHANGED guide
    \/ \E spawned \in BOOLEAN : grab_next(spawned)
    \/ \E known \in BOOLEAN : handleStream(Watched, known) /\ UNCHANGED tune
    \/ handleStream_wait(Watched)
    \/ disconnect(Watched)
    \/ acquire_retry(Watched)
    \/ \E spawned \in BOOLEAN : handleStream_spawn(Watched, spawned) /\ UNCHANGED tune
    \/ terminal_event(Watched)
    \/ watchdog_stalled(Watched)
    \/ zap_exit(Watched)
    \/ \E t \in TunerIds : cleanup_timeout(t)
    \/ Advance

\* timers fire and children that were killed exit; the interval of a session
\* whose output is paused finds the stall
DisconnectFairness ==
    /\ WF_vars(Advance)
    /\ WF_vars(scanMux_exit /\ UNCHANGED guide)
    /\ WF_vars(\E spawned \in BOOLEAN : grab_next(spawned))
    /\ WF_vars(handleStream_wait(Watched))
    /\ WF_vars(acquire_retry(Watched))
    /\ WF_vars(\E spawned \in BOOLEAN :
                  handleStream_spawn(Watched, spawned) /\ UNCHANGED tune)
    /\ WF_vars(watchdog_paused(Watched))
    /\ WF_vars(zap_exit(Watched))
    /\ \A t \in 0..(MaxTuners - 1) : WF_vars(t \in TunerIds /\ cleanup_timeout(t))

DisconnectSpec == DisconnectInit /\ [][DisconnectNext]_vars /\ DisconnectFairness

\* =================================================================== claims
\* the requesters a tuner is leased to: those that were granted it and whose
\* demodulator is still to be spawned or is running unsignalled
Holders(t) ==
    {s \in Sessions :
        /\ task[s].tuner = t
        /\ \/ task[s].pc = "settle"
           \/ task[s].pc = "streaming" /\ child[s].zap = "running"}
    \cup {r \in Recordings :
        /\ task[r].tuner = t
        /\ \/ task[r].pc = "insert"
           \/ task[r].pc = "recording" /\ child[r].zap = "running"}
    \cup {e \in {EpgId} : EPG.pc = "scanning" /\ EPG.tuner = t}

\* C1: under any interleaving of live requests, EPG scans and DVR recordings
\* every tuner has at most one holder at a time, hence the number of leases
\* held never exceeds the number of tuners N.
C1_OneHolder ==
    /\ \A t \in TunerIds : Cardinality(Holders(t)) <= 1
    /\ Cardinality(UNION {Holders(t) : t \in TunerIds}) <= N

\* C2: every lease taken by a live session or by an EPG scan is released on
\* every path, demodulator spawn failure included: when nothing more can
\* happen, no tuner is still marked in use for a session or a scan.
C2_EveryLeaseReleased ==
    (~ENABLED Next) =>
        \A t \in TunerIds :
            TUNERS[t].holder \in Sessions \cup {EpgId} => ~TUNERS[t].inUse

\* C3: the tuner of a live session is idle only after the session's demodulator
\* has exited: it is in use as long as that demodulator has not exited.
C3_IdleAfterExit ==
    \A s \in Sessions :
        (task[s].pc = "streaming" /\ child[s].zap \in {"running", "term", "killed"})
            => TUNERS[task[s].tuner].inUse

\* the kill signals of the session's teardown have been issued
TornDown(s) == child[s].zap \in {"term", "killed", "exited"}

\* C4: the teardown of a live session runs once: a terminal event of a session
\* whose teardown has run, delivered however late, is a no-op.
C4_TeardownOnce ==
    [][\A s \in Sessions :
          (TornDown(s) /\ events'[s] # events[s])
              => UNCHANGED <<TUNERS, child, killTimer, watchdog>>]_vars

\* C5: a live request invokes a cancel trigger only if preemption is enabled and
\* only on a tuner whose current lease is live, never on the tuner of an EPG
\* scan or of a DVR recording.
C5_LivePreemptsOnlyLive ==
    \A s \in Sessions :
        acq[s].cancelled => (ENABLE_PREEMPTION /\ acq[s].victimHolder \in Sessions)

\* a call of acquireTuner by r starts in this step
Starts(r) == acq[r].phase = "none" /\ acq'[r].phase # "none"

\* C6: when no tuner is idle and a tuner is leased live or epg, an acquire of
\* kind dvr invokes the cancel trigger of such a tuner (stated for the runs in
\* which preemption is enabled).
C6_DvrPreempts ==
    [][\A r \in Recordings :
          (/\ Starts(r)
           /\ ENABLE_PREEMPTION
           /\ AllBusy
           /\ \E t \in TunerIds : TUNERS[t].holder \in Sessions \cup {EpgId})
              => (acq'[r].cancelled /\ acq'[r].victimHolder \in Sessions \cup {EpgId})]_vars

\* C7: with preemption enabled and every tuner leased live, a new live request
\* invokes the victim's cancel trigger, and leaves the polling loop with the
\* victim's tuner granted.
C7_LivePreemptsLive ==
    [][\A s \in Sessions :
          /\ (/\ Starts(s)
              /\ ENABLE_PREEMPTION
              /\ \A t \in TunerIds : TUNERS[t].inUse /\ TUNERS[t].holder \in Sessions)
                 => acq'[s].cancelled
          /\ (/\ acq[s].phase = "preempt"
              /\ acq[s].victimHolder \in Sessions
              /\ acq'[s].phase # "preempt")
                 => (acq'[s].phase = "done" /\ acq'[s].result = acq[s].victim)]_vars

\* C8: acquire ends within a bounded wait, at most PreemptPolls polls and
\* RetryCount retries, each with its timer pending; it waits only while no tuner
\* is idle and returns null only after the last retry; the live handler then
\* answers 503 and spawns nothing.
C8_BoundedAcquire ==
    [][\A r \in Requesters :
          /\ acq'[r].phase = "preempt" => acq'[r].i < PreemptPolls
          /\ acq'[r].phase = "retry" => acq'[r].i < RetryCount
          /\ task'[r].pc = "acquire" => sleep'[r] \in 0..RetryDelay
          /\ (acq'[r].phase = "retry" /\ acq'[r] # acq[r]) => AllBusy
          /\ (acq'[r].phase = acq[r].phase /\ acq'[r] # acq[r])
                => acq'[r].i = acq[r].i + 1
          /\ (acq[r].phase # "done" /\ acq'[r].phase = "done" /\ acq'[r].result = -1)
                => /\ acq[r].phase = "retry" /\ acq[r].i = RetryCount - 1
                   /\ Kind(r) = "live" => task'[r].pc = "503"
          /\ task'[r].pc = "503"
                => (child'[r] = NoChild /\ task'[r].tuner = -1 /\ acq'[r].result = -1)]_vars

\* a live request was answered 503 after the whole wait
C8_witness == \E s \in Sessions : task[s].pc = "503" /\ acq[s].phase = "done"

\* C9: whenever a tuner is idle, acquire returns at once the first idle tuner in
\* cyclic order from (lastTunerIndex + 1) mod N and sets lastTunerIndex to it.
C9_RoundRobin ==
    [][\A r \in Requesters :
          (Starts(r) /\ ~AllBusy) =>
              /\ acq'[r].phase = "done"
              /\ \E i \in 0..(N - 1) :
                    /\ acq'[r].result = (lastTunerIndex + 1 + i) % N
                    /\ ~TUNERS[(lastTunerIndex + 1 + i) % N].inUse
                    /\ \A j \in 0..(i - 1) : TUNERS[(lastTunerIndex + 1 + j) % N].inUse
              /\ lastTunerIndex' = acq'[r].result]_vars

\* tuner 0 is idle and a live request was granted tuner 1, where the cursor stood
C9_witness ==
    /\ N = 2 /\ ~TUNERS[0].inUse /\ lastTunerIndex = 1
    /\ \E s \in Sessions : task[s].pc = "settle" /\ acq[s].result = 1

\* C10: a request whose channel number names no channel is answered 404 before
\* any lease is taken: it never acquires, and the step that answers changes no
\* tuner, not the cursor, and spawns nothing.
C10_NotFoundBeforeLease ==
    [][\A s \in Sessions :
          /\ (task[s].pc # "404" /\ task'[s].pc = "404")
                => UNCHANGED <<TUNERS, lastTunerIndex, acq, processes, child, killTimer>>
          /\ (~channel'[s] /\ task'[s].pc \notin {"new", "waitScan"})
                => /\ task'[s].pc = "404" /\ task'[s].tuner = -1
                   /\ acq'[s] = NoAcquire /\ child'[s] = NoChild]_vars

\* a 404 was answered while a tuner was leased
C10_witness ==
    \E s \in Sessions : task[s].pc = "404" /\ \E t \in TunerIds : TUNERS[t].inUse

\* C11: if the demodulator fails to start, the client receives a 500 and the
\* session is torn down; the failure is never reported after a 200 header.
C11_SpawnFailure500 ==
    \A s \in Sessions :
        child[s].zap = "failed" => (statusCode(s) = 500 /\ ~crashed)

\* C12: while isInitialScanDone is false no live request is granted a tuner or
\* spawns a child: a request that arrives earlier polls the flag every
\* ScanPollDelay and goes on to the lookup only at a poll that finds it true.
C12_WaitForInitialScan ==
    [][\A s \in Sessions :
          /\ ~EPG'.isInitialScanDone
                => /\ task'[s].pc \in {"new", "waitScan"}
                   /\ task'[s].tuner = -1 /\ child'[s] = NoChild
                   /\ acq'[s] = NoAcquire
          /\ task'[s].pc = "waitScan" => sleep'[s] \in 0..ScanPollDelay
          /\ (task[s].pc = "waitScan" /\ task'[s].pc = "waitScan" /\ sleep'[s] > sleep[s])
                => (sleep[s] = 0 /\ sleep'[s] = ScanPollDelay)
          /\ (task[s].pc = "waitScan" /\ task'[s].pc # "waitScan")
                => (EPG.isInitialScanDone /\ sleep[s] = 0)]_vars

\* a request that waited finds the flag true at its poll
C12_witness ==
    \E s \in Sessions :
        task[s].pc = "waitScan" /\ sleep[s] = 0 /\ EPG.isInitialScanDone

\* C13: on the start-up path that begins with isInitialScanDone false the flag
\* eventually becomes true, whether the scan runs to its end or is skipped
\* because a tuner is busy (unless the server has ended); once true it never
\* becomes false again; and a stream request that waits for it proceeds.
C13_ScanDoneEventually ==
    /\ [][EPG.isInitialScanDone => EPG'.isInitialScanDone]_vars
    /\ <>(EPG.isInitialScanDone \/ crashed)
    /\ \A s \in Sessions :
          (task[s].pc = "waitScan") ~> (task[s].pc # "waitScan" \/ crashed)

\* the flag has flipped after a scan and a request that waited holds a tuner
C13_witness ==
    /\ EPG.isInitialScanDone /\ child[EpgId].zap = "exited"
    /\ \E s \in Sessions : task[s].pc = "settle"

\* EPG.grab is called in this step
GrabCalled == EPG'.grabs = EPG.grabs + 1

\* C14: an EPG scan begins only in a call of grab that finds every tuner idle,
\* and check and lease are one step; a call that finds a tuner in use leases
\* nothing and starts no scan.
C14_ScanStartsAllIdle ==
    [][/\ (~EPG.isScanning /\ EPG'.isScanning)
            => /\ GrabCalled
               /\ \A t \in TunerIds : ~TUNERS[t].inUse
               /\ \E t \in TunerIds :
                     TUNERS' = [TUNERS EXCEPT ![t].inUse = TRUE,
                                              ![t].epgScanning = TRUE,
                                              ![t].holder = EpgId]
       /\ (GrabCalled /\ \E t \in TunerIds : TUNERS[t].inUse)
            => /\ UNCHANGED <<TUNERS, child, sleep>>
               /\ EPG'.isScanning = EPG.isScanning /\ EPG'.pc = EPG.pc]_vars

\* with two tuners, one in use: grab was called and has never scanned
C14_witness ==
    /\ N = 2 /\ TUNERS[0].inUse /\ ~TUNERS[1].inUse
    /\ EPG.grabs >= 1 /\ ~EPG.isScanning /\ child[EpgId].zap = "none"

\* C15: at most one EPG scan is in progress: a call of grab made while a scan is
\* running returns at once, leases no tuner, spawns nothing and changes no tuner
\* state.
C15_OneScan ==
    [][/\ (GrabCalled /\ EPG.isScanning)
            => /\ UNCHANGED <<TUNERS, child, sleep, crashed>>
               /\ EPG' = [EPG EXCEPT !.grabs = EPG.grabs + 1]
       /\ Cardinality({t \in TunerIds : TUNERS'[t].epgScanning}) <= 1
       /\ (\E t \in TunerIds : TUNERS'[t].epgScanning)
            => (EPG'.isScanning /\ EPG'.pc = "scanning")]_vars

\* the first call is scanning its first mux and the second call was dropped
C15_witness ==
    /\ EPG.grabs = 2 /\ EPG.pc = "scanning" /\ ~EPG.isInitialScanDone
    /\ child[EpgId].zap = "running"

\* C16: the stall watchdog tears a session down only at a tick at which more
\* than 30 s and at most 35 s have passed since the last output, and while its
\* interval is active no tick at which more than 30 s had passed since the last
\* output is behind it: the silence never exceeds 35 s.
C16_StallWatchdog ==
    /\ clock.fired # -1 =>
          /\ clock.fired > StallLimit
          /\ clock.fired <= StallLimit + WatchdogPeriod
    /\ \A s \in Sessions : watchdog[s] =>
          /\ (clock.nextTick - WatchdogPeriod) - clock.lastActivity <= StallLimit
          /\ clock.now - clock.lastActivity <= StallLimit + WatchdogPeriod

\* output arrived on a tick, the tick 30 s later let the session be, and the
\* next one tore it down: SIGTERM went to both children
C16_witness ==
    /\ clock.fired = StallLimit + WatchdogPeriod
    /\ child[Watched].zap = "term" /\ child[Watched].ffmpeg = "term"
    /\ ~watchdog[Watched]

\* a cancel trigger of tuner t is invoked in this step: a terminal event of a
\* session on t, or the killSwitch called by a preempting acquireTuner
Cancelled(t) ==
    \/ \E s \in Sessions : events'[s] < events[s] /\ task[s].tuner = t
    \/ \E r \in Requesters :
          ~acq[r].cancelled /\ acq'[r].cancelled /\ acq'[r].victim = t

\* C17: once a cancel trigger of a tuner has been invoked, the release of the
\* tuner is on a timer of at most 2 s that is never postponed, and when the
\* timer fires the tuner is idle, whatever the state of the children (no exit
\* event is needed).
C17_ForcedRelease ==
    [][\A t \in TunerIds :
          /\ (Cancelled(t) \/ TUNERS'[t].cleaningUp) =>
                /\ TUNERS'[t].cleaningUp
                /\ killTimer'[t].left \in 0..KillDelay
          /\ killTimer[t].left > 0 => killTimer'[t].left \in 0..killTimer[t].left
          /\ (killTimer[t].left = 0 /\ killTimer'[t].left # 0) =>
                ~TUNERS'[t].inUse /\ ~TUNERS'[t].cleaningUp]_vars

\* a streaming session was cancelled by the client and its tuner is idle
\* again, while the exit of its demodulator has not been delivered
C17_witness ==
    \E s \in Sessions :
        /\ task[s].pc = "streaming" /\ events[s] < Cardinality(Events)
        /\ child[s].zap = "killed"
        /\ ~TUNERS[task[s].tuner].inUse
        /\ killTimer[task[s].tuner] = NoTimer

\* the state in which parseEIT hands section i of the captured buffer on
Before(i) ==
    parseEIT([sourceMap |-> sourceMap, programs |-> programs], scan.CHANNELS,
             SubSeq(scan.buffer, 1, i - 1), scan.freq)

\* the key the rows of section i, an ATSC EIT, belong under
KeyOf(i) ==
    LET k == mapKey(scan.freq, scan.buffer[i].id)
    IN  IF k \in DOMAIN Before(i).sourceMap THEN Before(i).sourceMap[k]
        ELSE toString(scan.buffer[i].id)

\* C18: a call of parseEIT stores every event of an ATSC EIT section with
\* source id s under SourceMap[(f, s)] if the map has that entry when the
\* section is processed and under the decimal string of s otherwise, and
\* creates no row of a source under any other key.
C18_ServiceKey ==
    [][/\ \A i \in 1..Len(scan.buffer) :
            scan.buffer[i].tableId = 203 =>
               \A j \in 1..Len(scan.buffer[i].events) :
                  LET ev == scan.buffer[i].events[j]
                  IN  trim(stripControl(ev.title)) # <<>> =>
                        \E r \in programs' :
                           /\ r.frequency = scan.freq
                           /\ r.source_id = scan.buffer[i].id
                           /\ r.event_id = ev.eventId
                           /\ r.start_time = ev.startTimeGPS + GpsEpoch - LeapSeconds
                           /\ r.channel_service_id = KeyOf(i)
       /\ \A r \in programs' \ programs :
            r.source_id # -1 =>
               \E i \in 1..Len(scan.buffer) :
                  /\ scan.buffer[i].tableId = 203
                  /\ scan.buffer[i].id = r.source_id
                  /\ r.channel_service_id = KeyOf(i)]_vars

\* a VCT maps source 7 of the frequency to 15.1, the EIT of source 7 follows:
\* its row is under 15.1 and none is under 7
C18_witness ==
    /\ scan.calls = 1 /\ scan.CHANNELS = <<>> /\ scan.freq = 473000000
    /\ scan.buffer = <<VCT(7, 15, 1, 3), ATSCEIT(7, HalfHour, News)>>
    /\ \E r \in programs :
          r.channel_service_id = <<"1", "5", ".", "1">> /\ r.source_id = 7
    /\ \A r \in programs : r.channel_service_id # <<"7">>

\* C19: every row of the store has end_time > start_time > 0 and a title
\* that is not empty.
C19_RowsWellFormed ==
    \A r \in programs :
        r.end_time > r.start_time /\ r.start_time > 0 /\ r.title # <<>>

\* C20: a second call of parseEIT on the same buffer and frequency leaves the
\* store as the first call left it.
C20_ParseIdempotent == scan.calls >= 2 => programs = scan.first

\* rows that agree in every column but description
SameButDescription(r, q) == [r EXCEPT !.description = q.description] = q

\* C21: in every call of parseEIT an ETT section inserts no row and removes
\* none: it changes at most the description of rows of its frequency, channel
\* and event_id, and when no such row exists it leaves the store unchanged.
C21_EttUpdatesOnly ==
    [][/\ Before(Len(scan.buffer) + 1).programs = programs'
       /\ \A i \in 1..Len(scan.buffer) :
            scan.buffer[i].tableId = 204 =>
               LET old == Before(i).programs
                   new == Before(i + 1).programs
                   Hit(r) == /\ r.frequency = scan.freq
                             /\ r.channel_service_id = KeyOf(i)
                             /\ r.event_id = scan.buffer[i].eventId
               IN  /\ Cardinality(new) = Cardinality(old)
                   /\ \A q \in new : \E r \in old :
                         SameButDescription(r, q) /\ (q # r => Hit(r))
                   /\ (\A r \in old : ~Hit(r)) => new = old]_vars

\* the ETT came before its EIT: the call stored the one row of the EIT, and
\* that row has no description
C21_witness ==
    /\ scan.calls = 1
    /\ scan.buffer = <<ETT(7, <<"d">>), ATSCEIT(7, HalfHour, News)>>
    /\ Cardinality(programs) = 1
    /\ \A r \in programs : r.description = <<>> /\ r.event_id = 1

\* the events of an EIT section carry no description text: an ATSC EIT never
\* does, a DVB EIT does not when it has no extended event descriptor
Untexted(sec) ==
    \/ sec.tableId = 203
    \/ /\ sec.tableId >= 78 /\ sec.tableId <= 111
       /\ \A j \in 1..Len(sec.events) : trim(sec.events[j].desc) = <<>>

\* C22: in every call of parseEIT, an EIT section whose events carry no
\* description text leaves the non-empty description of every stored row as it
\* was, also of the rows whose title and end_time it overwrites.
C22_DescriptionKept ==
    [][\A i \in 1..Len(scan.buffer) :
          Untexted(scan.buffer[i]) =>
             \A r \in Before(i).programs :
                r.description # <<>> =>
                   \E q \in Before(i + 1).programs :
                      conflict(q, r) /\ q.description = r.description]_vars

\* C23: a session that has spawned its demodulator has given it the requested
\* channel number as the channel argument, not the name of the section, and
\* every streaming session has spawned it so.
C23_TunedByNumber ==
    \A s \in Sessions :
        /\ tune.key[s] # "" =>
              /\ tune.key[s] = tune.channelNum[s]
              /\ tune.key[s] # findByNumber(tune.CHANNELS, tune.channelNum[s])[1].name
        /\ task[s].pc = "streaming" => tune.key[s] # ""

\* of two sections named alike the second was asked for and is tuned
C23_witness ==
    \E s \in Sessions :
        /\ task[s].pc = "streaming" /\ child[s].zap = "running"
        /\ tune.channelNum[s] = "55.2" /\ tune.key[s] = "55.2"
        /\ tune.CHANNELS[1].name = tune.CHANNELS[2].name

\* C24: when the store exists at boot, isInitialScanDone is true from the
\* start and the first scan that runs is one started by the periodic timer.
C24_NoStartupScan ==
    (boot.dbExists /\ boot.periodic # -1) =>
        /\ EPG.isInitialScanDone
        /\ boot.scans # <<>> => boot.scans[1] = "periodic"

\* C25: a terminal event of session a, which invokes a's teardown, leaves a
\* different holder b, the one the tuner was granted to last, alone: the
\* children of b are not
\* signalled, the watchdog of b is not cleared, and no timer is set that
\* releases the lease of b.
C25_SessionIsolation ==
    [][\A a \in Sessions :
          events'[a] < events[a] =>
             \A b \in Holders(task[a].tuner) \ {a} :
                TUNERS[task[a].tuner].holder = b /\ child[a].zap \in {"killed", "exited"} =>
                /\ child'[b] = child[b]
                /\ b \in Sessions => watchdog'[b] = watchdog[b]
                /\ killTimer'[task[a].tuner] = killTimer[task[a].tuner]]_vars

\* C29: the capture of a frequency is parsed only once the tuner used for it
\* has been released: at a step that runs parseEIT no tuner is in use for the
\* EPG scan.
C29_ParsedAfterRelease ==
    [][scan'.calls > scan.calls =>
          \A t \in TunerIds : ~(TUNERS[t].inUse /\ TUNERS[t].epgScanning)]_vars

\* C30: a failure at one frequency is local to it: an EPG scan ends only when
\* no distinct frequency is left to attempt.
C30_EveryFrequencyAttempted ==
    [][EPG.isScanning /\ ~EPG'.isScanning => EPG.left = 0]_vars

\* C26: a request whose client left before the listeners were attached does
\* not keep its tuner: once it holds the lease, its children are ended and the
\* tuner becomes idle again (unless the server has ended).
C26_NoStrandedLease ==
    \A s \in Sessions :
       (client[s] = "gone" /\ task[s].pc \in {"settle", "streaming"}
                           /\ TUNERS[task[s].tuner].inUse)
          ~> (crashed \/ (/\ task[s].tuner \in TunerIds
                          /\ ~TUNERS[task[s].tuner].inUse
                          /\ child[s].zap # "running"
                          /\ child[s].ffmpeg # "running"))

\* the client left early, the request was granted a tuner and streamed to no
\* one, and the tuner is idle again with the children killed
C26_witness ==
    \E s \in Sessions :
       /\ client[s] = "gone" /\ task[s].pc = "streaming"
       /\ ~TUNERS[task[s].tuner].inUse
       /\ child[s].zap \in {"killed", "exited"}

\* packet j (counted from 0) of the capture is a synchronised packet of PID p
\* with the given payload_unit_start_indicator
OnPid(j, p, pusi) ==
    LET packet == capture.packets[j + 1]
    IN  packet.sync /\ packet.pid = p /\ packet.pusi = pusi

\* C27: a packet with PUSI on PID p leaves in sectionBuffers no partial section
\* of p that began before it, and a continuation packet is never appended to a
\* section that began before an earlier packet with PUSI on its PID.
C27_ClearedOnStart ==
    [][capture'.i = capture.i + 1 =>
          \A p \in Pids :
             /\ OnPid(capture.i, p, TRUE) =>
                   \/ sectionBuffers'[p] = NoSection
                   \/ sectionBuffers'[p].start = capture.i
             /\ OnPid(capture.i, p, FALSE) /\ sectionBuffers[p] # NoSection =>
                   \A j \in (sectionBuffers[p].start + 1)..(capture.i - 1) :
                      ~OnPid(j, p, TRUE)]_vars

\* the section that packets k and j of the capture carry between them: packet k
\* has PUSI and the first bytes of a section longer than what it holds, and j,
\* the next packet of the PID, is a continuation that holds the rest
Spanned(k, j) ==
    LET first == capture.packets[k + 1]
        sectionStart == slice(first.payload, first.payload[1] + 1)
        totalLen == (sectionStart[2] % 16) * 256 + sectionStart[3] + 3
    IN  head(sectionStart \o capture.packets[j + 1].payload, totalLen)

Spans(k, j) ==
    LET first == capture.packets[k + 1]
        sectionStart == slice(first.payload, first.payload[1] + 1)
    IN  /\ k < j
        /\ OnPid(k, first.pid, TRUE)
        /\ OnPid(j, first.pid, FALSE)
        /\ \A m \in (k + 1)..(j - 1) : ~capture.packets[m + 1].sync
                                       \/ capture.packets[m + 1].pid # first.pid
        /\ Len(sectionStart) >= 3
        /\ Len(sectionStart) < (sectionStart[2] % 16) * 256 + sectionStart[3] + 3
        /\ Len(sectionStart) + Len(capture.packets[j + 1].payload)
              >= (sectionStart[2] % 16) * 256 + sectionStart[3] + 3

\* the calls of handleCompleteSection for the section that began in packet k
Deliveries(k) ==
    {n \in 1..Len(capture.delivered) :
        /\ capture.delivered[n].start = k
        /\ capture.delivered[n].pid = capture.packets[k + 1].pid}

\* C28: a section that spans two packets of a PID is handed to
\* handleCompleteSection once, as its section_length + 3 bytes, in the pass over
\* the continuation packet: not earlier, not twice, and not never.
C28_SpanningSectionOnce ==
    \A k, j \in 0..(Len(capture.packets) - 1) :
       Spans(k, j) =>
          /\ Cardinality(Deliveries(k)) <= 1
          /\ \A n \in Deliveries(k) :
                /\ capture.delivered[n].section = Spanned(k, j)
                /\ capture.delivered[n].at = j
          /\ capture.i > j => Deliveries(k) # {}
          /\ ~inLoop(capture, capture.i) => Deliveries(k) # {}

\* the capture of the mux being scanned has passed the 50 MB limit
OverCap == EPG.pc = "scanning" /\ scan.size > BufferCap

\* C31: a capture that passes 50 MB kills its dvbv5-zap; the exit of the killed
\* process parses the capture, releases the tuner and lets the scan go on (the
\* next frequency is taken up after the delay); a tuner is leased to the scan
\* only while its dvbv5-zap has not exited.
C31_CapReleasesLease ==
    /\ [](OverCap => child[EpgId].zap = "killed")
    /\ [](\A t \in TunerIds :
             TUNERS[t].epgScanning =>
                /\ TUNERS[t].inUse /\ EPG.pc = "scanning" /\ EPG.tuner = t
                /\ child[EpgId].zap \in {"running", "killed"} \/ crashed)
    /\ [][OverCap /\ child'[EpgId].zap # "killed" =>
             /\ child'[EpgId].zap = "exited"
             /\ scan'.calls = scan.calls + 1
             /\ ~TUNERS'[EPG.tuner].inUse /\ ~TUNERS'[EPG.tuner].epgScanning
             /\ EPG'.pc = "delay" /\ EPG'.left = EPG.left
             /\ sleep'[EpgId] = MuxDelay]_vars
    /\ [][EPG.pc = "delay" /\ EPG'.pc # "delay" /\ EPG.left > 0 =>
             EPG'.pc = "scanning" /\ EPG'.left = EPG.left - 1]_vars

\* the capture of the second mux has passed the limit and its dvbv5-zap is
\* killed, after the capture of the first mux was parsed and its tuner released
C31_witness ==
    /\ OverCap /\ child[EpgId].zap = "killed"
    /\ scan.calls = 1 /\ EPG.left = 0

\* C32: while the server runs, at most one tuner has epgScanning set, a tuner
\* with epgScanning set is in use, and no tuner has it set unless isScanning.
C32_EpgFlags ==
    crashed \/
    /\ Cardinality({t \in TunerIds : TUNERS[t].epgScanning}) <= 1
    /\ \A t \in TunerIds : TUNERS[t].epgScanning => TUNERS[t].inUse
    /\ ~EPG.isScanning => \A t \in TunerIds : ~TUNERS[t].epgScanning

\* C33: a section handed to handleCompleteSection during a call of parseEIT is
\* made of bytes of the buffer of that call: it began in a packet of that
\* buffer, not in a partial section that an earlier call left in sectionBuffers.
C33_NoLeakBetweenCaptures ==
    \A n \in 1..Len(capture.delivered) : capture.delivered[n].start # Earlier

\* C34: once the loop has ended on a buffer that begins with bytes that are no
\* packets, it has handed over the sections that it hands over for the same
\* buffer without these bytes.
C34_SyncRecovery ==
    ~(capture.i * PacketSize < Len(bytes(capture)) - PacketSize) =>
       handed(capture.delivered)
          = handed(parseFrom(bytes([capture EXCEPT !.prefix = 0]), 0, NoBuffers, <<>>))

\* C35: the loop passes over every whole packet of the buffer: when it has
\* ended, its position is the number of whole packets, also for a buffer whose
\* length is a multiple of 188.
C35_LastPacketRead ==
    ~inLoop(capture, capture.i) =>
       \A k \in 1..Len(capture.packets) : capture.packets[k].sync => k <= capture.i

\* the value the map is to hold for a VCT entry: the number of the channel that
\* the three lookups choose, else the entry's "major.minor"
Chosen(ch) ==
    LET virtualChannel == toString(ch.major) \o <<".">> \o toString(ch.minor)
        found == findChannel(scan.CHANNELS, scan.freq, virtualChannel, ch.programNumber)
    IN  IF found # <<>> THEN found[1].number ELSE virtualChannel

\* C36: once a buffer with a VCT entry of non-zero source_id has been parsed,
\* the map holds under (freq, source_id) the number of the chosen channel, or
\* the entry's "major.minor" when no channel matches, whatever it held before.
C36_VctMapping ==
    scan.calls >= 1 =>
       \A n \in 1..Len(scan.buffer) :
          scan.buffer[n].tableId = 200 =>
             \A c \in 1..Len(scan.buffer[n].channels) :
                LET ch == scan.buffer[n].channels[c]
                    key == mapKey(scan.freq, ch.sourceId)
                IN  ch.sourceId # 0 =>
                       key \in DOMAIN sourceMap /\ sourceMap[key] = Chosen(ch)

\* C37: the watchdog interval of a session whose teardown has begun is
\* cleared, so no later tick of it can call cleanup again.
C37_WatchdogStopped == \A s \in Sessions : TornDown(s) => ~watchdog[s]

\* C38: a step of the EPG scan calls no cleanup (no kill timer is set, no
\* watchdog cleared, no child of a session or recording signalled, no tuner set
\* to cleaningUp); the tuner it marks for a mux is one that is not in use in
\* that moment; and with every tuner in use it marks none and the scan ends.
C38_EpgNeverPreempts ==
    [][/\ EPG' # EPG
            => /\ UNCHANGED <<killTimer, watchdog>>
               /\ \A r \in Requesters : child'[r] = child[r]
               /\ \A t \in TunerIds : TUNERS'[t].cleaningUp = TUNERS[t].cleaningUp
       /\ \A t \in TunerIds :
             (TUNERS'[t].epgScanning /\ ~TUNERS[t].epgScanning) => ~TUNERS[t].inUse
       /\ (EPG.pc = "delay" /\ EPG'.pc # "delay" /\ AllBusy)
            => (UNCHANGED TUNERS /\ EPG'.pc = "idle")]_vars

\* the scan has passed the tuner of a streaming session and scans its second
\* mux on the other tuner
C38_witness ==
    /\ N = 2 /\ EPG.pc = "scanning" /\ EPG.tuner = 1 /\ EPG.left = MaxFreqs - 2
    /\ \E s \in Sessions : task[s].pc = "streaming" /\ task[s].tuner = 0
                              /\ TUNERS[0].inUse /\ TUNERS[0].holder = s

\* the step is the start of a call of acquireTuner by r that finds no tuner free
CallsBusy(r) == task[r].pc = "new" /\ task'[r].pc = "acquire"

\* cleanup has passed its guard on tuner t in this step
Cancels(t) == ~TUNERS[t].cleaningUp /\ TUNERS'[t].cleaningUp

\* C39: a call of acquireTuner that finds every tuner in use, with preemption
\* enabled, calls the killSwitch of no tuner but the one at
\* (lastTunerIndex + 1) % N, and of none if that tuner is epgScanning; the
\* polls and retries of a call never call a killSwitch.
C39_OneCandidate ==
    [][\A r \in Requesters :
          /\ CallsBusy(r)
               => /\ \A t \in TunerIds :
                        t # (lastTunerIndex + 1) % N
                           => /\ ~Cancels(t)
                              /\ killTimer'[t] = killTimer[t]
                              /\ acq'[r].victim # t
                  /\ TUNERS[(lastTunerIndex + 1) % N].epgScanning
                        => /\ UNCHANGED <<TUNERS, child, killTimer, watchdog>>
                           /\ ~acq'[r].cancelled
          /\ (task[r].pc = "acquire" /\ acq'[r] # acq[r])
               => /\ UNCHANGED <<child, killTimer, watchdog>>
                  /\ \A t \in TunerIds : ~Cancels(t)]_vars

\* with preemption enabled a request waits in the last loop, having cancelled
\* nothing: the candidate is the tuner of the EPG scan, while a live session
\* streams untouched on the other tuner
C39_witness ==
    /\ ENABLE_PREEMPTION /\ N = 2
    /\ \E r \in Requesters, s \in Sessions, t \in TunerIds :
          /\ task[r].pc = "acquire" /\ acq[r].phase = "retry" /\ ~acq[r].cancelled
          /\ t = (lastTunerIndex + 1) % N
          /\ TUNERS[t].epgScanning /\ TUNERS[t].inUse /\ EPG.tuner = t
          /\ task[s].pc = "streaming" /\ task[s].tuner = 1 - t
          /\ TUNERS[1 - t].killSwitch = s /\ TUNERS[1 - t].inUse
          /\ ~TUNERS[1 - t].cleaningUp /\ child[s].ffmpeg = "running"

\* C40: a call of acquireTuner that has called a killSwitch returns the tuner
\* whose killSwitch it called, never null and never another tuner.
C40_PreemptionNotInVain ==
    [][\A r \in Requesters :
          (acq[r].cancelled /\ acq'[r].phase = "done")
             => acq'[r].result = acq[r].victim]_vars

====
